---- MODULE Spec2Model ----
(***************************************************************************)
(* A model of kataras/pg: the install-once guard of the table-change       *)
(* trigger (DB.ListenTable / DB.prepareListenTable), the listener          *)
(* goroutine, the transaction plumbing of DB (InTransaction, Begin,        *)
(* Commit, Rollback, Exec) with the batch operations built on it, and the  *)
(* INSERT/UPSERT, UPDATE and DUPLICATE query builders, the field           *)
(* annotation parser, the schema dump, CheckSchema, the constraint         *)
(* decoder and ListTables.                                                 *)
(*                                                                         *)
(* Each part has its variables, its initial condition and its actions;     *)
(* a specification runs one part and leaves the variables of the others    *)
(* at their initial value.                                                 *)
(***************************************************************************)
EXTENDS Integers, Sequences, FiniteSets, TLC

\* Number of goroutines calling ListenTable/PrepareListenTable on one DB.
NumCallers == 2

\* Number of Accept calls the listener goroutine is followed for.
MaxAccepts == 3

\* Largest number of values passed to one Insert/Upsert/Update call.
MaxValues == 3

\* Largest number of columns of a table given to the query builders.
MaxColumns == 3

\* Largest number of options in a field annotation.
MaxOptions == 2

\* Largest number of tables living in a database.
MaxTables == 3

\* Largest number of tables registered in a schema that is dumped.
MaxDumpTables == 2

\* Largest number of constraints the catalog returns for one column.
MaxConstraints == 2

\* Largest number of fields in a result row.
MaxFields == 2

\* Largest number of statements, of Commit/Rollback calls and of InTransaction
\* calls the owner of a transactional DB makes on it.
MaxHandleCalls == 2

\* Number of closers of one Listener (its goroutine and the callers), and the
\* largest number of Close calls of one caller.
MaxClosers == 4

MaxCloseCalls == 2

\* Largest number of Schema.Register calls.
MaxRegisters == 4

\* Number of executeJob goroutines that can be alive at once, and the largest
\* error count a job reaches.
MaxWorkers == 1

MaxErrorCount == 6

VARIABLES
    \* ---- install-once guard (db.go:92-94), shared by every caller
    tableChangeNotifyFunctionOnce,   \* *uint32: 0 or 1
    tableChangeNotifyTriggerOnce,    \* map[string]struct{}: the set of its keys
    \* ---- one prepareListenTable call per caller
    pc,                              \* position of each caller in prepareListenTable
    table,                           \* the "table" argument of each caller
    functionExecs,                   \* successful executions of CREATE FUNCTION
    triggerExecs,                    \* successful executions of CREATE TRIGGER, per table
    \* ---- per caller: the Listener of its ListenTable call and the goroutine on it
    lstate,                          \* "none", "failed", "listening", "returned", "panicked"
    closed,                          \* Listener.closed: 0 or 1
    unlistening,                     \* Close calls past the swap, in Exec, not yet released
    released,                        \* calls of l.conn.Release()
    unlistenErrs,                    \* Close calls that returned the error of Exec
    accepts,                         \* calls of conn.Accept so far
    delivered,                       \* calls of callback(evt, nil) so far
    lastCalls,                       \* the callback calls of the last loop iteration
    \* ---- one call of InTransaction or of a batch operation on a DB
    txdb,                            \* the DB Begin returned: its tx and dbTxClosed fields
    txState,                         \* the pgx transaction: "none", "open", "committed",
                                     \*   "rolledback" or "broken" (its finish failed)
    itPc,                            \* "idle", "fn", "defer", "returned" or "panicked"
    op,                              \* the call: its kind and its number of values
    fnResult,                        \* what fn returned: "nil", "error", "intentional", "panic"
    itReturn,                        \* what the call returned to its caller
    begins,                          \* calls of Pool.BeginTx
    commits,                         \* calls of tx.Commit on the pgx transaction
    rollbacks,                       \* calls of tx.Rollback on the pgx transaction
    processed,                       \* values whose statement was issued
    failedAt,                        \* the value whose statement failed, 0 if none
    outside,                         \* statements the call issued on the pool
    pending,                         \* values written inside the open transaction
    store,                           \* values in effect in the database
    \* ---- one call of desc.BuildInsertQuery
    td,                              \* *Table: the sequence of its Columns
    args,                            \* the columns extractArguments found, by position in td
    idPtr,                           \* whether idPtr is not nil
    forceOnConflictExpr,             \* the forced conflict target, "" for none
    upsert,                          \* the upsert flag
    query,                           \* what the builder returned, queryNone before the call
    \* ---- one call of desc.BuildUpdateQuery
    primaryKey,                      \* *Column: the table's columns, the primary key's name
    value,                           \* the struct value: the columns whose field is not zero
    columnsToUpdate,                 \* the allow-list (only membership is tested)
    updateQuery,                     \* what the builder returned, updateNone before the call
    \* ---- one call of desc.BuildDuplicateQuery
    duplicateTd,                     \* *Table: the sequence of its Columns
    duplicateIdPtr,                  \* whether idPtr is not nil
    duplicateQuery,                  \* what the builder returned, duplicateNone before the call
    \* ---- one struct field through convertStructFieldToColumnDefinion and back
    field,                           \* reflect.StructField: column name and data type of its Go type
    fieldTag,                        \* its annotation: field.Tag.Get("pg")
    parsed,                          \* the Column and error of parsing fieldTag, parseNone before
    rendered,                        \* FieldTagString(true) of the parsed Column
    reparsed,                        \* the Column and error of parsing rendered, parseNone before
    \* ---- one call of DB.CreateSchemaDumpSQL (its createTablesDump part)
    schema,                          \* the registered tables, by registered position
    dump,                            \* whether the dump was made, and its statements in order
    \* ---- one call of DB.CheckSchema, for a schema of one registered table
    codeTable,                       \* the registered (code-declared) table before the call
    live,                            \* what ListTables returns for it: no table or one
    checked,                         \* the outcome: error, and both sides after the call
    \* ---- one column through DB.ListConstraints and DB.ListColumns
    catalog,                         \* the constraint rows of the column: type and definition
    constraints,                     \* the decoded Constraints (Constraint.Build on each row)
    merged,                          \* the column DB.ListColumns gives, its error or the panic
    \* ---- one call of DB.ListTables
    liveTables,                      \* the tables of the database, in the order of their columns
    filtered,                        \* the names opts.Filter rejects
    listed,                          \* the returned list
    \* ---- one call of ConvertRowsToStruct
    scanTd,                          \* the table definition scanned into
    fieldDescs,                      \* rows.FieldDescriptions(): the names of the row's fields
    scanned,                         \* the error and the struct after the call
    \* ---- a DB obtained from Begin, used by its owner
    hdb,                             \* the DB value Begin returned: tx and dbTxClosed
    hpc,                             \* "none", "begun" or "failed": the owner's Begin
    pgxTx,                           \* the pgx transaction of hdb
    ownTx,                           \* the pgx transaction an InTransaction call began itself
    hBegins,                         \* calls of Pool.BeginTx
    hCommits,                        \* calls of Commit on a pgx transaction
    hRollbacks,                      \* calls of Rollback on a pgx transaction
    stmts,                           \* the statements issued through hdb
    nested,                          \* the InTransaction call on hdb in progress or last made
    nestedCalls,                     \* InTransaction calls made on hdb
    \* ---- one Listener closed by its goroutine and by callers
    lcConn,                          \* whether l.conn is set
    lcClosed,                        \* Listener.closed: 0 or 1
    lcReleased,                      \* calls of l.conn.Release()
    closePc,                         \* per closer: "idle", "exec" (won the swap) or "done"
    closeCalls,                      \* per closer: Close calls begun
    closeErrs,                       \* Close calls that returned the statement's error
    \* ---- prepareListenTable on a DB derived from the root DB
    origin,                          \* how the caller obtained the DB
    ddb,                             \* the DB the caller calls on: tx and the guard references
    guardFlag,                       \* the uint32 of OpenPool
    guardTriggers,                   \* the keys of the map of OpenPool
    prepared,                        \* the outcome of the call
    \* ---- a Schema and the Register calls on it
    structCache,                     \* map[reflect.Type]*desc.Table
    orderedTypes,                    \* []reflect.Type, in registration order
    registers,                       \* Register calls made
    lastRegistered,                  \* what the last Register call returned
    \* ---- one call of a mutating method of a Repository
    repoTd,                          \* repo.td: its type and whether it has a primary key
    repoCall,                        \* the method called, its number of values, its outcome
    \* ---- the cron manager and one job
    jobStatus,                       \* Status of the job in m.jobs; "none" without a job
    errorCount,                      \* its ErrorCount
    handlerSet,                      \* its Handler != nil
    handlers,                        \* m.handlers[name]: "none", "nil" or "set"
    worker,                          \* per executeJob goroutine: pc "none", "spawned",
                                     \*   "marked" or "handler"; obj: the Job it runs
    detached,                        \* Status and ErrorCount of the replaced Jobs still run
    disabledByCaller,                \* DisableJob returned nil for the job in m.jobs, no EnableJob since
    startedDisabled                  \* the handler of that job was started while disabledByCaller

installVars == <<tableChangeNotifyFunctionOnce, tableChangeNotifyTriggerOnce,
                 pc, table, functionExecs, triggerExecs>>

listenerVars == <<lstate, closed, unlistening, released, unlistenErrs, accepts,
    delivered, lastCalls>>

txVars == <<txdb, txState, itPc, op, fnResult, itReturn, begins, commits, rollbacks,
            processed, failedAt, outside, pending, store>>

insertVars == <<td, args, idPtr, forceOnConflictExpr, upsert, query>>

updateVars == <<primaryKey, value, columnsToUpdate, updateQuery>>

duplicateVars == <<duplicateTd, duplicateIdPtr, duplicateQuery>>

tagVars == <<field, fieldTag, parsed, rendered, reparsed>>

dumpVars == <<schema, dump>>

checkVars == <<codeTable, live, checked>>

constraintVars == <<catalog, constraints, merged>>

listVars == <<liveTables, filtered, listed>>

scanVars == <<scanTd, fieldDescs, scanned>>

handleVars == <<hdb, hpc, pgxTx, ownTx, hBegins, hCommits, hRollbacks, stmts, nested, nestedCalls>>

closeVars == <<lcConn, lcClosed, lcReleased, closePc, closeCalls, closeErrs>>

derivedVars == <<origin, ddb, guardFlag, guardTriggers, prepared>>

registerVars == <<structCache, orderedTypes, registers, lastRegistered>>

repositoryVars == <<repoTd, repoCall>>

cronVars == <<jobStatus, errorCount, handlerSet, handlers, worker, detached,
    disabledByCaller, startedDisabled>>

vars == <<installVars, listenerVars, txVars, insertVars, updateVars, duplicateVars,
        tagVars, dumpVars, checkVars, constraintVars, listVars, scanVars,
        handleVars, closeVars, derivedVars, registerVars, repositoryVars, cronVars>>

Callers == 1..NumCallers

\* The tables the callers listen on.
TableNames == {"customers", "blogs"}

----------------------------------------------------------------------------
(***************************************************************************)
(* The install-once guard: DB.prepareListenTable.                          *)
(* A caller is at one of: "idle" (not called yet), "loadOnce" (about to    *)
(* read the atomic flag), "execFunction" (about to Exec CREATE FUNCTION),  *)
(* "storeOnce" (about to set the flag), "readTrigger" (about to read the   *)
(* map under RLock), "execTrigger" (about to Exec CREATE TRIGGER),         *)
(* "storeTrigger" (about to write the map under Lock), "returned" (nil)    *)
(* or "failed" (an error was returned).                                    *)
(***************************************************************************)

InstallFrame == UNCHANGED <<listenerVars, txVars, insertVars, updateVars,
    duplicateVars, tagVars, dumpVars, checkVars, constraintVars, listVars,
    scanVars, handleVars, closeVars, derivedVars, registerVars, repositoryVars,
    cronVars>>

InstallInit ==
    /\ tableChangeNotifyFunctionOnce = 0
    /\ tableChangeNotifyTriggerOnce = {}
    /\ pc = [p \in Callers |-> "idle"]
    /\ table = [p \in Callers |-> ""]
    /\ functionExecs = 0
    /\ triggerExecs = [t \in TableNames |-> 0]

\* if table == "" { return errors.New("empty table name") }
\* if len(changes) == 0 { return nil }
PrepareCall(p, t, nchanges) ==
    /\ pc[p] = "idle"
    /\ pc' = [pc EXCEPT ![p] =
                IF t = "" THEN "failed"
                ELSE IF nchanges = 0 THEN "returned"
                ELSE "loadOnce"]
    /\ table' = [table EXCEPT ![p] = t]
    /\ UNCHANGED <<tableChangeNotifyFunctionOnce, tableChangeNotifyTriggerOnce,
                   functionExecs, triggerExecs>>
    /\ InstallFrame

\* if atomic.LoadUint32(db.tableChangeNotifyFunctionOnce) == 0 { ... }
FunctionOnceUnset(once) == once = 0

LoadFunctionOnce(p) ==
    /\ pc[p] = "loadOnce"
    /\ pc' = [pc EXCEPT ![p] =
                IF FunctionOnceUnset(tableChangeNotifyFunctionOnce)
                THEN "execFunction" ELSE "readTrigger"]
    /\ UNCHANGED <<tableChangeNotifyFunctionOnce, tableChangeNotifyTriggerOnce,
                   table, functionExecs, triggerExecs>>
    /\ InstallFrame

\* _, err := db.Exec(ctx, query): the database runs CREATE FUNCTION, or fails.
ExecCreateFunction(p, ok) ==
    /\ pc[p] = "execFunction"
    /\ IF ok
       THEN /\ functionExecs' = functionExecs + 1
            /\ pc' = [pc EXCEPT ![p] = "storeOnce"]
       ELSE /\ functionExecs' = functionExecs
            /\ pc' = [pc EXCEPT ![p] = "failed"]
    /\ UNCHANGED <<tableChangeNotifyFunctionOnce, tableChangeNotifyTriggerOnce,
                   table, triggerExecs>>
    /\ InstallFrame

\* atomic.StoreUint32(db.tableChangeNotifyFunctionOnce, 1)
StoreFunctionOnce(p) ==
    /\ pc[p] = "storeOnce"
    /\ tableChangeNotifyFunctionOnce' = 1
    /\ pc' = [pc EXCEPT ![p] = "readTrigger"]
    /\ UNCHANGED <<tableChangeNotifyTriggerOnce, table, functionExecs, triggerExecs>>
    /\ InstallFrame

\* RLock; _, triggerCreated := db.tableChangeNotifyTriggerOnce[table]; RUnlock
TriggerCreated(once, t) == t \in once

ReadTriggerOnce(p) ==
    /\ pc[p] = "readTrigger"
    /\ pc' = [pc EXCEPT ![p] =
                IF TriggerCreated(tableChangeNotifyTriggerOnce, table[p])
                THEN "returned" ELSE "execTrigger"]
    /\ UNCHANGED <<tableChangeNotifyFunctionOnce, tableChangeNotifyTriggerOnce,
                   table, functionExecs, triggerExecs>>
    /\ InstallFrame

\* _, err := db.Exec(ctx, query): the database runs CREATE TRIGGER, or fails.
ExecCreateTrigger(p, ok) ==
    /\ pc[p] = "execTrigger"
    /\ IF ok
       THEN /\ triggerExecs' = [triggerExecs EXCEPT ![table[p]] = @ + 1]
            /\ pc' = [pc EXCEPT ![p] = "storeTrigger"]
       ELSE /\ triggerExecs' = triggerExecs
            /\ pc' = [pc EXCEPT ![p] = "failed"]
    /\ UNCHANGED <<tableChangeNotifyFunctionOnce, tableChangeNotifyTriggerOnce,
                   table, functionExecs>>
    /\ InstallFrame

\* Lock; db.tableChangeNotifyTriggerOnce[table] = struct{}{}; Unlock; return nil
StoreTriggerOnce(p) ==
    /\ pc[p] = "storeTrigger"
    /\ tableChangeNotifyTriggerOnce' = tableChangeNotifyTriggerOnce \cup {table[p]}
    /\ pc' = [pc EXCEPT ![p] = "returned"]
    /\ UNCHANGED <<tableChangeNotifyFunctionOnce, table, functionExecs, triggerExecs>>
    /\ InstallFrame

----------------------------------------------------------------------------
\* C1: under every interleaving of the callers, the statement that creates the
\* table-change notify function is executed at most once.
C1_FunctionCreatedAtMostOnce == functionExecs <= 1

\* C2: under every interleaving of the callers, the CREATE TRIGGER statement of
\* a table is executed at most once.
C2_TriggerCreatedAtMostOnce == \A t \in TableNames : triggerExecs[t] <= 1

----------------------------------------------------------------------------
(***************************************************************************)
(* The listener: DB.Listen, the goroutine of DB.ListenTable, Listener.Close *)
(***************************************************************************)

ListenerFrame == UNCHANGED <<installVars, txVars, insertVars, updateVars,
    duplicateVars, tagVars, dumpVars, checkVars, constraintVars, listVars,
    scanVars, handleVars, closeVars, derivedVars, registerVars, repositoryVars,
    cronVars>>

ListenerInit ==
    /\ lstate = [l \in Callers |-> "none"]
    /\ closed = [l \in Callers |-> 0]
    /\ unlistening = [l \in Callers |-> 0]
    /\ released = [l \in Callers |-> 0]
    /\ unlistenErrs = [l \in Callers |-> 0]
    /\ accepts = [l \in Callers |-> 0]
    /\ delivered = [l \in Callers |-> 0]
    /\ lastCalls = [l \in Callers |-> <<>>]

\* What conn.Accept gives the loop:
\*   "eof"          an error that Is io.ErrUnexpectedEOF (nil notification)
\*   "error"        any other error, ErrEmptyPayload included (nil notification)
\*   "badPayload"   a notification whose payload json.Unmarshal rejects
\*   "notification" a notification that decodes
AcceptOutcomes == {"eof", "error", "badPayload", "notification"}

\* What the callback returns.
CallbackReturns == {"nil", "error"}

\* One callback call: the error it was given ("none" for callback(evt, nil)) and
\* what it returned.
Call(with, ret) == [with |-> with, ret |-> ret]

\* One iteration of the goroutine's for loop: the callback calls it makes and how
\* it ends: "listening" (the loop goes round), "returned" (the goroutine returns),
\* "panicked" (notification is nil and notification.Payload is read).
LoopIteration(acc, onAcceptErr, onDecodeErr, onEvent) ==
    IF acc = "eof" THEN [calls |-> <<>>, end |-> "returned"]
    ELSE IF acc = "error" THEN
        IF onAcceptErr # "nil"
        THEN [calls |-> <<Call("accept", onAcceptErr)>>, end |-> "returned"]
        ELSE [calls |-> <<Call("accept", onAcceptErr)>>, end |-> "panicked"]
    ELSE IF acc = "badPayload" /\ onDecodeErr # "nil"
        THEN [calls |-> <<Call("decode", onDecodeErr)>>, end |-> "returned"]
    ELSE LET before == IF acc = "badPayload"
                       THEN <<Call("decode", onDecodeErr)>> ELSE <<>>
         IN  [calls |-> Append(before, Call("none", onEvent)),
              end   |-> IF onEvent # "nil" THEN "returned" ELSE "listening"]

\* A swap that succeeds whatever the flag holds.
CloseSwapsAlways(c) == TRUE

\* if atomic.CompareAndSwapUint32(&l.closed, 0, 1) { defer l.conn.Release(); ... }
CloseSwaps(c) == c = 0

\* conn, err := db.Listen(ctx, opts.Channel); if err != nil { return nil, err };
\* go func() { ... }()
Listen(l, ok) ==
    /\ lstate[l] = "none"
    /\ lstate' = [lstate EXCEPT ![l] = IF ok THEN "listening" ELSE "failed"]
    /\ UNCHANGED <<closed, unlistening, released, unlistenErrs, accepts, delivered,
                   lastCalls>>
    /\ ListenerFrame

\* One round of the loop; when it ends the goroutine, the deferred
\* conn.Close(ctx) starts: its swap is made here, its Exec and Release are
\* CloseUnlisten.
Accept(l, acc, onAcceptErr, onDecodeErr, onEvent) ==
    /\ lstate[l] = "listening"
    /\ accepts[l] < MaxAccepts
    /\ LET it == LoopIteration(acc, onAcceptErr, onDecodeErr, onEvent)
           n  == Cardinality({i \in DOMAIN it.calls : it.calls[i].with = "none"})
           sw == it.end # "listening" /\ CloseSwaps(closed[l])
       IN  /\ lstate' = [lstate EXCEPT ![l] = it.end]
           /\ lastCalls' = [lastCalls EXCEPT ![l] = it.calls]
           /\ delivered' = [delivered EXCEPT ![l] = @ + n]
           /\ closed' = [closed EXCEPT ![l] = IF sw THEN 1 ELSE @]
           /\ unlistening' = [unlistening EXCEPT ![l] = IF sw THEN @ + 1 ELSE @]
    /\ accepts' = [accepts EXCEPT ![l] = @ + 1]
    /\ UNCHANGED <<released, unlistenErrs>>
    /\ ListenerFrame

\* The caller's own Close on the Closer ListenTable returned, up to the swap:
\* a call that loses the swap returns nil here.
Close(l) ==
    /\ lstate[l] \notin {"none", "failed"}
    /\ closed' = [closed EXCEPT ![l] = IF CloseSwaps(closed[l]) THEN 1 ELSE @]
    /\ unlistening' = [unlistening EXCEPT ![l] = IF CloseSwaps(closed[l]) THEN @ + 1 ELSE @]
    /\ UNCHANGED <<lstate, released, unlistenErrs, accepts, delivered, lastCalls>>
    /\ ListenerFrame

\* The rest of a Close that won the swap: l.conn.Exec of UNLISTEN returns, the
\* call returns its error or nil, and the deferred l.conn.Release() runs.
CloseUnlisten(l, ok) ==
    /\ unlistening[l] > 0
    /\ unlistening' = [unlistening EXCEPT ![l] = @ - 1]
    /\ released' = [released EXCEPT ![l] = @ + 1]
    /\ unlistenErrs' = [unlistenErrs EXCEPT ![l] = IF ok THEN @ ELSE @ + 1]
    /\ UNCHANGED <<lstate, closed, accepts, delivered, lastCalls>>
    /\ ListenerFrame

NextListener ==
    \/ \E l \in Callers, ok \in BOOLEAN : Listen(l, ok)
    \/ \E l \in Callers, acc \in AcceptOutcomes, r1 \in CallbackReturns,
          r2 \in CallbackReturns, r3 \in CallbackReturns : Accept(l, acc, r1, r2, r3)
    \/ \E l \in Callers : Close(l)
    \/ \E l \in Callers, ok \in BOOLEAN : CloseUnlisten(l, ok)

\* C5: whenever the callback returns nil, also when it was called with an error
\* from accepting or decoding a notification, the listener keeps listening.
C5_NilCallbackKeepsListening ==
    \A l \in Callers :
        (lastCalls[l] # <<>> /\ \A i \in DOMAIN lastCalls[l] : lastCalls[l][i].ret = "nil")
            => lstate[l] = "listening"

----------------------------------------------------------------------------
(***************************************************************************)
(* Transactions: DB.InTransaction, DB.Begin, DB.Commit, DB.Rollback,       *)
(* DB.Exec, and the batch operations DB.Insert, DB.Upsert,                 *)
(* DB.updateTableRecords (Repository.Insert/Upsert/UpdateOnlyColumns run   *)
(* the same code through Repository.InTransaction).                        *)
(***************************************************************************)

TxFrame == UNCHANGED <<installVars, listenerVars, insertVars, updateVars,
    duplicateVars, tagVars, dumpVars, checkVars, constraintVars, listVars,
    scanVars, handleVars, closeVars, derivedVars, registerVars, repositoryVars,
    cronVars>>

\* The DB the call is made on: OpenPool leaves tx nil and dbTxClosed false.
RootDB == [tx |-> FALSE, dbTxClosed |-> FALSE]

TxInit ==
    /\ txdb = RootDB
    /\ txState = "none"
    /\ itPc = "idle"
    /\ op = [kind |-> "none", n |-> 0, pk |-> TRUE]
    /\ fnResult = "none"
    /\ itReturn = "none"
    /\ begins = 0
    /\ commits = 0
    /\ rollbacks = 0
    /\ processed = 0
    /\ failedAt = 0
    /\ outside = 0
    /\ pending = {}
    /\ store = {}

BatchKinds == {"Insert", "Upsert", "Update"}

\* What a function passed to InTransaction can do at its end.
FnResults == {"nil", "error", "intentional", "panic"}

\* func (db *DB) IsTransaction() bool { return db.tx != nil }
IsTransaction(db) == db.tx

\* txDB := db.clone(tx)
clone(db) == [tx |-> TRUE, dbTxClosed |-> FALSE]

\* DB.Exec that ignores the transaction of the DB it is called on.
ExecOnPool(db) == "pool"

\* DB.Exec: on db.tx when it is set, on db.Pool otherwise.
ExecOn(db) == IF db.tx THEN "tx" ELSE "pool"

\* DB.Commit / DB.Rollback on db, where ok says whether the pgx call succeeds:
\* the DB afterwards, whether the pgx call was made, and the error returned.
Finish(db, ok) ==
    IF db.dbTxClosed THEN [db |-> db, called |-> FALSE, err |-> FALSE]
    ELSE IF db.tx THEN
        [db |-> IF ok THEN [tx |-> FALSE, dbTxClosed |-> TRUE] ELSE db,
         called |-> TRUE, err |-> ~ok]
    ELSE [db |-> db, called |-> FALSE, err |-> TRUE]

\* A deferred function that rolls back on a panic only.
DeferredFinishCommitsOnError(result) ==
    IF result = "panic" THEN "rollback" ELSE "commit"

\* The deferred function of InTransaction: which of tx.Rollback / tx.Commit it
\* calls for what fn did.
DeferredFinish(result) ==
    IF result = "panic" THEN "rollback"
    ELSE IF result # "nil" THEN "rollback"
    ELSE "commit"

\* err = fn(tx); return err -- the result is not a named one, so what the
\* deferred function assigns to err afterwards is not what the caller gets.
ReturnValue(result) == result

\* The start of a call on a DB that is not in a transaction.
\*   kind "fn": InTransaction(ctx, fn) with any fn.
\*   a batch kind with n values: 0 values return nil, 1 value runs the single
\*   operation on the DB itself, 2 or more run inside InTransaction.
\*   Update looks the primary key up before it goes on (pkOk), and returns an
\*   error without one.
\* InTransaction starts with db.Begin, which may fail.
CallOp(kind, n, pkOk, beginOk) ==
    /\ itPc = "idle"
    /\ ~IsTransaction(RootDB)
    /\ op' = [kind |-> kind, n |-> n, pk |-> pkOk]
    /\ IF kind # "fn" /\ n = 0 THEN
            /\ itPc' = "returned" /\ itReturn' = "nil"
            /\ UNCHANGED <<txdb, txState, begins>>
       ELSE IF kind = "Update" /\ ~pkOk THEN
            /\ itPc' = "returned" /\ itReturn' = "error"
            /\ UNCHANGED <<txdb, txState, begins>>
       ELSE IF kind # "fn" /\ n = 1 THEN
            /\ itPc' = "fn"
            /\ UNCHANGED <<txdb, txState, begins, itReturn>>
       ELSE /\ begins' = begins + 1
            /\ IF beginOk
               THEN /\ txdb' = clone(RootDB) /\ txState' = "open"
                    /\ itPc' = "fn" /\ UNCHANGED itReturn
               ELSE /\ itPc' = "returned" /\ itReturn' = "error"
                    /\ UNCHANGED <<txdb, txState>>
    /\ UNCHANGED <<fnResult, commits, rollbacks, processed, failedAt, outside,
                   pending, store>>
    /\ TxFrame

\* fn of a plain InTransaction call ends.
FnReturns(result) ==
    /\ itPc = "fn"
    /\ op.kind = "fn"
    /\ fnResult' = result
    /\ itPc' = "defer"
    /\ UNCHANGED <<txdb, txState, op, itReturn, begins, commits, rollbacks,
                   processed, failedAt, outside, pending, store>>
    /\ TxFrame

\* The statement of the next value of a batch: InsertSingle / UpsertSingle /
\* updateTableRecord on the DB in hand, which builds the query and runs it with
\* db.Exec; ok says whether that succeeds. The loop returns the first error, and
\* nil after the last value.
Statement(ok) ==
    /\ itPc = "fn"
    /\ op.kind \in BatchKinds
    /\ processed < op.n
    /\ LET v  == processed + 1
           on == ExecOn(txdb)
       IN  /\ processed' = v
           /\ outside' = IF on = "pool" THEN outside + 1 ELSE outside
           /\ pending' = IF ok /\ on = "tx" THEN pending \cup {v} ELSE pending
           /\ store' = IF ok /\ on = "pool" THEN store \cup {v} ELSE store
           /\ failedAt' = IF ok THEN failedAt ELSE v
           /\ IF op.n = 1
              THEN /\ itPc' = "returned"
                   /\ itReturn' = IF ok THEN "nil" ELSE "error"
                   /\ UNCHANGED fnResult
              ELSE /\ UNCHANGED itReturn
                   /\ IF ~ok THEN fnResult' = "error" /\ itPc' = "defer"
                      ELSE IF v = op.n THEN fnResult' = "nil" /\ itPc' = "defer"
                      ELSE UNCHANGED <<fnResult, itPc>>
    /\ UNCHANGED <<txdb, txState, op, begins, commits, rollbacks>>
    /\ TxFrame

\* The deferred function of InTransaction, then the return (or the re-thrown
\* panic). finishOk says whether the pgx Commit/Rollback succeeds. A committed
\* transaction puts its writes in effect; any other end drops them.
Deferred(finishOk) ==
    /\ itPc = "defer"
    /\ LET how == DeferredFinish(fnResult)
           f   == Finish(txdb, finishOk)
       IN  /\ txdb' = f.db
           /\ commits' = IF f.called /\ how = "commit" THEN commits + 1 ELSE commits
           /\ rollbacks' = IF f.called /\ how = "rollback" THEN rollbacks + 1 ELSE rollbacks
           /\ txState' = IF ~f.called THEN txState
                         ELSE IF f.err THEN "broken"
                         ELSE IF how = "commit" THEN "committed" ELSE "rolledback"
           /\ store' = IF f.called /\ ~f.err /\ how = "commit"
                       THEN store \cup pending ELSE store
           /\ pending' = IF f.called THEN {} ELSE pending
    /\ itPc' = IF fnResult = "panic" THEN "panicked" ELSE "returned"
    /\ itReturn' = IF fnResult = "panic" THEN "none" ELSE ReturnValue(fnResult)
    /\ UNCHANGED <<op, fnResult, begins, processed, failedAt, outside>>
    /\ TxFrame

NextTx ==
    \/ \E kind \in BatchKinds \cup {"fn"}, n \in 0..MaxValues, pkOk \in BOOLEAN,
          beginOk \in BOOLEAN : CallOp(kind, n, pkOk, beginOk)
    \/ \E result \in FnResults : FnReturns(result)
    \/ \E ok \in BOOLEAN : Statement(ok)
    \/ \E finishOk \in BOOLEAN : Deferred(finishOk)

----------------------------------------------------------------------------
(***************************************************************************)
(* The INSERT/UPSERT builder: desc.BuildInsertQuery, desc.buildInsertQuery *)
(* with Table.PrimaryKey, Table.OnConflict and Table.UniqueIndexes.        *)
(*                                                                         *)
(* A Column carries the fields the builder reads: Name, PrimaryKey,        *)
(* Unique, UniqueIndex and Conflict. The built statement is a record of    *)
(* its clauses, in the order the builder writes them:                      *)
(*   columns    the column list of INSERT INTO ... (...)                   *)
(*   conflicts  the target of ON CONFLICT (...); empty: no such clause     *)
(*   action     the text after the target: its leading text and, for a     *)
(*              generated DO UPDATE SET, the assigned columns in order     *)
(*              (each assignment is  col = EXCLUDED.col)                   *)
(*   returning  the column of RETURNING; "": no such clause                *)
(* and err, "" for a statement or the error returned instead of one.       *)
(* The VALUES list (one placeholder per column) is not part of the record. *)
(***************************************************************************)

InsertFrame == UNCHANGED <<installVars, listenerVars, txVars, updateVars,
    duplicateVars, tagVars, dumpVars, checkVars, constraintVars, listVars,
    scanVars, handleVars, closeVars, derivedVars, registerVars, repositoryVars,
    cronVars>>

\* Column names, by position.
ColumnNames == <<"id", "email", "name", "title", "code">>

\* Names of unique-index groups a column can be put in.
IndexNames == {"uk_a", "uk_b"}

\* Conflict actions a column can declare.
ConflictActions == {"DO NOTHING", "DO UPDATE SET name=EXCLUDED.name"}

Column(name, pk, unique, uniqueIndex, conflict) ==
    [Name |-> name, PrimaryKey |-> pk, Unique |-> unique,
     UniqueIndex |-> uniqueIndex, Conflict |-> conflict]

\* The <<Unique, UniqueIndex>> of a column: unique, in a unique-index group,
\* neither, or both (the tag unique_index=uk_a,unique is accepted: only the
\* unique_index option looks at what was set before it).
ColumnKinds ==
    {<<FALSE, "">>, <<TRUE, "">>, <<TRUE, "uk_a">>} \cup {<<FALSE, ix>> : ix \in IndexNames}

\* The tables of n columns: the first column is the primary key or there is none;
\* at most one column, the first or the last, declares a conflict action.
TablesOf(n) ==
    { [i \in 1..n |-> Column(ColumnNames[i], pk /\ i = 1, kind[i][1], kind[i][2],
                             IF i = cc THEN ca ELSE "")] :
        kind \in [1..n -> ColumnKinds], pk \in BOOLEAN, cc \in {0, 1, n},
        ca \in ConflictActions }

\* The elements of the set of positions S, as an ascending sequence.
RECURSIVE Ascending(_)
Ascending(S) ==
    IF S = {} THEN <<>>
    ELSE LET m == CHOOSE x \in S : \A y \in S : x <= y
         IN  <<m>> \o Ascending(S \ {m})

\* The names of the columns of t at the positions ps (a sequence).
NamesAt(t, ps) == [k \in 1..Len(ps) |-> t[ps[k]].Name]

\* Whether name is an element of the sequence names.
Among(name, names) == \E k \in 1..Len(names) : names[k] = name

queryNone == [err |-> "not built", columns |-> <<>>, conflicts |-> <<>>,
              action |-> [text |-> "", set |-> <<>>], returning |-> ""]

InsertInit ==
    /\ \E n \in 1..MaxColumns :
          /\ td \in TablesOf(n)
          /\ args \in {Ascending(S) : S \in (SUBSET (1..n)) \ {{}}}
          /\ forceOnConflictExpr \in
                {"", "bogus"} \cup IndexNames \cup {ColumnNames[i] : i \in 1..n}
    /\ idPtr \in BOOLEAN
    /\ upsert \in BOOLEAN
    /\ query = queryNone

\* The other parts leave the builder's variables at one fixed input.
InsertIdle ==
    /\ td = <<Column("id", TRUE, FALSE, "", "")>>
    /\ args = <<1>>
    /\ idPtr = FALSE
    /\ forceOnConflictExpr = ""
    /\ upsert = FALSE
    /\ query = queryNone

\* Table.PrimaryKey: the position of the first primary-key column, 0 if none.
PrimaryKey(t) ==
    IF \E i \in 1..Len(t) : t[i].PrimaryKey
    THEN CHOOSE i \in 1..Len(t) : t[i].PrimaryKey /\ \A j \in 1..(i - 1) : ~t[j].PrimaryKey
    ELSE 0

\* Table.OnConflict: the Conflict of the first column that declares one.
OnConflict(t) ==
    IF \E i \in 1..Len(t) : t[i].Conflict # ""
    THEN LET i == CHOOSE i \in 1..Len(t) :
                    t[i].Conflict # "" /\ \A j \in 1..(i - 1) : t[j].Conflict = ""
         IN  [expr |-> t[i].Conflict, ok |-> TRUE]
    ELSE [expr |-> "", ok |-> FALSE]

\* A UniqueIndexes that puts each column in front of its group.
UniqueIndexesPrepend(t) ==
    LET RECURSIVE upto(_)
        upto(i) ==
            IF i = 0 THEN [ix \in {} |-> <<>>]
            ELSE LET m == upto(i - 1)
                     ix == t[i].UniqueIndex
                 IN  IF ix = "" THEN m
                     ELSE [k \in DOMAIN m \cup {ix} |->
                             IF k = ix
                             THEN <<t[i].Name>> \o (IF ix \in DOMAIN m THEN m[ix] ELSE <<>>)
                             ELSE m[k]]
    IN  upto(Len(t))

\* Table.UniqueIndexes: index name -> the names of its columns, appended in the
\* order of td.Columns.
UniqueIndexes(t) ==
    LET RECURSIVE upto(_)
        upto(i) ==
            IF i = 0 THEN [ix \in {} |-> <<>>]
            ELSE LET m == upto(i - 1)
                     ix == t[i].UniqueIndex
                 IN  IF ix = "" THEN m
                     ELSE [k \in DOMAIN m \cup {ix} |->
                             IF k = ix
                             THEN Append(IF ix \in DOMAIN m THEN m[ix] ELSE <<>>, t[i].Name)
                             ELSE m[k]]
    IN  upto(Len(t))

\* strings.Contains(strings.ToUpper(onConflictExpression), "DO UPDATE")
ContainsDoUpdate(text) ==
    text \in {"DO UPDATE SET ", "DO UPDATE SET name=EXCLUDED.name"}

\* onConflictExpression = `DO UPDATE SET ` + "col = EXCLUDED.col" for every
\* inserted column that is not among conflicts, comma-separated.
DoUpdateSet(columnNamesToInsert, conflicts) ==
    [text |-> "DO UPDATE SET ",
     set  |-> SelectSeq(columnNamesToInsert, LAMBDA c : ~Among(c, conflicts))]

\* The conflicts the loop over args collects: with a declared conflict action the
\* inserted columns that are Unique, without one those in a unique-index group.
CollectConflicts(t, a, hasConflict) ==
    NamesAt(t, SelectSeq(a, LAMBDA i :
        IF hasConflict THEN t[i].Unique ELSE t[i].UniqueIndex # ""))

\* if forceOnConflictExpr != "" { ... }: the forced name is looked up in the
\* unique-index groups first, then among the collected conflicts.
ForcedConflicts(t, conflicts, force) ==
    LET uniqueIndexes == UniqueIndexes(t)
    IN  IF force \in DOMAIN uniqueIndexes THEN uniqueIndexes[force]
        ELSE IF Among(force, conflicts) THEN <<force>>
        ELSE conflicts

\* A statement end that writes RETURNING only without an ON CONFLICT clause.
ReturningWithoutConflictOnly(returningColumn, conflicts, action) ==
    IF Len(conflicts) > 0 THEN "" ELSE returningColumn

\* The end of the statement: RETURNING after an ON CONFLICT clause only when
\* the action contains DO UPDATE, and without such a clause whenever a
\* returning column was given.
Returning(returningColumn, conflicts, action) ==
    IF Len(conflicts) > 0
    THEN IF returningColumn # "" /\ ContainsDoUpdate(action.text)
         THEN returningColumn ELSE ""
    ELSE returningColumn

Failed(msg) == [queryNone EXCEPT !.err = msg]

buildInsertQuery(t, a, returningColumn, force, ups) ==
    LET oc        == OnConflict(t)
        columns   == NamesAt(t, a)
        collected == CollectConflicts(t, a, oc.ok)
        declared  == [text |-> oc.expr, set |-> <<>>]
    IN  IF Len(columns) = 0 THEN Failed("no columns to insert")
        ELSE IF force # "" /\ Len(ForcedConflicts(t, collected, force)) = 0
            THEN Failed("can't find unique index")
        ELSE LET conflicts ==
                     IF force # "" THEN ForcedConflicts(t, collected, force)
                     ELSE IF ups /\ Len(collected) > 0 /\ ~oc.ok THEN collected
                     ELSE <<>>
                 action ==
                     IF force # "" \/ (ups /\ Len(collected) > 0 /\ ~oc.ok)
                     THEN DoUpdateSet(columns, conflicts)
                     ELSE declared
             IN  [err |-> "", columns |-> columns, conflicts |-> conflicts,
                  action |-> action,
                  returning |-> Returning(returningColumn, conflicts, action)]

\* BuildInsertQuery: the returning column is the primary key's name when idPtr
\* is given and the table has a primary key.
BuildInsertQuery(t, a, ptr, force, ups) ==
    LET pk == PrimaryKey(t)
        returningColumn == IF ptr /\ pk # 0 THEN t[pk].Name ELSE ""
    IN  IF Len(a) = 0 THEN Failed("no arguments found")
        ELSE buildInsertQuery(t, a, returningColumn, force, ups)

Build ==
    /\ query = queryNone
    /\ query' = BuildInsertQuery(td, args, idPtr, forceOnConflictExpr, upsert)
    /\ UNCHANGED <<td, args, idPtr, forceOnConflictExpr, upsert>>
    /\ InsertFrame

NextInsert == Build

----------------------------------------------------------------------------
(***************************************************************************)
(* The UPDATE builder: desc.BuildUpdateQuery, extractUpdateArguments and   *)
(* buildUpdateQuery.                                                       *)
(*                                                                         *)
(* An Argument is a column name with the value of its field; the value of  *)
(* column c is written <<"value of", c>>. The built statement is a record: *)
(*   set     the SET list: column and placeholder number of each           *)
(*           assignment, in order                                          *)
(*   where   the placeholder number of WHERE "pk" = $n                     *)
(*   values  the returned argument list (args.Values())                    *)
(* and err, "" for a statement.                                            *)
(*                                                                         *)
(* extractArguments, filterArgumentsForFullUpdate and Arguments.ShiftEnd   *)
(* are modelled from their documented behaviour: extractArguments gives    *)
(* the table's columns in declared order that pass the filter, without     *)
(* the zero-valued ones on a full update; filterArgumentsForFullUpdate     *)
(* drops the primary key; ShiftEnd adds, or moves, an argument to the end. *)
(***************************************************************************)

UpdateFrame == UNCHANGED <<installVars, listenerVars, txVars, insertVars,
    duplicateVars, tagVars, dumpVars, checkVars, constraintVars, listVars,
    scanVars, handleVars, closeVars, derivedVars, registerVars, repositoryVars,
    cronVars>>

Argument(c) == [Column |-> c, Value |-> <<"value of", c>>]

updateNone == [err |-> "not built", set |-> <<>>, where |-> 0, values |-> <<>>]

UpdateInit ==
    /\ \E n \in 1..MaxColumns :
          /\ primaryKey \in [Columns : {SubSeq(ColumnNames, 1, n)},
                             Name : {ColumnNames[i] : i \in 1..n}]
          /\ value \in SUBSET {ColumnNames[i] : i \in 1..n}
          /\ columnsToUpdate \in SUBSET ({ColumnNames[i] : i \in 1..n} \cup {"missing"})
    /\ updateQuery = updateNone

UpdateIdle ==
    /\ primaryKey = [Columns |-> <<"id">>, Name |-> "id"]
    /\ value = {}
    /\ columnsToUpdate = {}
    /\ updateQuery = updateNone

\* extractArguments(primaryKey.Table, structValue, filter)
extractArguments(columns, val, allowList) ==
    LET keep(c) == IF allowList = {} THEN c \in val ELSE c \in allowList
        kept == SelectSeq(columns, keep)
    IN  [k \in 1..Len(kept) |-> Argument(kept[k])]

\* filterArgumentsForFullUpdate(args)
filterArgumentsForFullUpdate(a, pk) == SelectSeq(a, LAMBDA x : x.Column # pk)

\* args.ShiftEnd(arg)
ShiftEnd(a, arg) == Append(SelectSeq(a, LAMBDA x : x.Column # arg.Column), arg)

\* extractUpdateArguments: the arguments with the primary key last, or
\* <<>> for the "no arguments found" error.
extractUpdateArguments(pk, val, allowList) ==
    LET found == extractArguments(pk.Columns, val, allowList)
        a     == IF allowList = {} THEN filterArgumentsForFullUpdate(found, pk.Name)
                 ELSE found
    IN  IF Len(a) = 0 THEN <<>> ELSE ShiftEnd(a, Argument(pk.Name))

\* A WHERE placeholder that is always the one after the last SET placeholder.
WhereIndexAlwaysNext(paramIndex, shouldUpdateID) == paramIndex + 1

\* primaryKeyWhereIndex
WhereIndex(paramIndex, shouldUpdateID) ==
    IF shouldUpdateID THEN paramIndex ELSE paramIndex + 1

\* The loop of buildUpdateQuery over args: the SET assignments, numbered from 1.
RECURSIVE SetList(_, _, _)
SetList(a, primaryKeyName, shouldUpdateID) ==
    IF Len(a) = 0 THEN <<>>
    ELSE LET front == SetList(SubSeq(a, 1, Len(a) - 1), primaryKeyName, shouldUpdateID)
             c     == a[Len(a)].Column
         IN  IF ~shouldUpdateID /\ c = primaryKeyName THEN front
             ELSE Append(front, [col |-> c, param |-> Len(front) + 1])

buildUpdateQuery(a, primaryKeyName, shouldUpdateID) ==
    LET set == SetList(a, primaryKeyName, shouldUpdateID)
    IN  [set |-> set, where |-> WhereIndex(Len(set), shouldUpdateID)]

BuildUpdateQuery(pk, val, allowList) ==
    LET a == extractUpdateArguments(pk, val, allowList)
        shouldUpdateID == pk.Name \in allowList
    IN  IF Len(a) = 0 \/ Len(a) = 1
        THEN [updateNone EXCEPT !.err = "no arguments found for update"]
        ELSE LET q == buildUpdateQuery(a, pk.Name, shouldUpdateID)
             IN  [err |-> "", set |-> q.set, where |-> q.where,
                  values |-> [k \in 1..Len(a) |-> a[k].Value]]

BuildUpdate ==
    /\ updateQuery = updateNone
    /\ updateQuery' = BuildUpdateQuery(primaryKey, value, columnsToUpdate)
    /\ UNCHANGED <<primaryKey, value, columnsToUpdate>>
    /\ UpdateFrame

NextUpdate == BuildUpdate

----------------------------------------------------------------------------
(***************************************************************************)
(* The DUPLICATE builder: desc.BuildDuplicateQuery.                        *)
(*                                                                         *)
(* A column carries Name, PrimaryKey, Generated (Column.IsGenerated) and   *)
(* SelfReference (it references the primary key of its own table). The     *)
(* built statement is a record of its clauses:                             *)
(*   columns  the column list of INSERT INTO ... (...)                     *)
(*   select   the SELECT list: the column and, for COALESCE(col, pk), the  *)
(*            second operand ("" otherwise)                                *)
(*   where    the column of WHERE col = $1                                 *)
(*   tail     the pieces of text written after the WHERE condition         *)
(* and err, "" for a statement.                                            *)
(***************************************************************************)

DuplicateFrame == UNCHANGED <<installVars, listenerVars, txVars, insertVars,
    updateVars, tagVars, dumpVars, checkVars, constraintVars, listVars, scanVars,
    handleVars, closeVars, derivedVars, registerVars, repositoryVars, cronVars>>

DuplicateColumn(name, pk, generated, selfReference) ==
    [Name |-> name, PrimaryKey |-> pk, Generated |-> generated,
     SelfReference |-> selfReference]

\* The tables of n columns: the first column is the primary key, generated or
\* not, or there is no primary key; each other column is plain, generated or a
\* reference to the table itself.
DuplicateTablesOf(n) ==
    { [i \in 1..n |->
          DuplicateColumn(ColumnNames[i], pk /\ i = 1,
                          IF i = 1 THEN gen ELSE kind[i] = "generated",
                          i > 1 /\ pk /\ kind[i] = "self")] :
        pk \in BOOLEAN, gen \in BOOLEAN,
        kind \in [1..n -> {"plain", "generated", "self"}] }

duplicateNone == [err |-> "not built", columns |-> <<>>, select |-> <<>>,
                  where |-> "", tail |-> <<>>]

DuplicateInit ==
    /\ \E n \in 1..MaxColumns : duplicateTd \in DuplicateTablesOf(n)
    /\ duplicateIdPtr \in BOOLEAN
    /\ duplicateQuery = duplicateNone

DuplicateIdle ==
    /\ duplicateTd = <<DuplicateColumn("id", TRUE, FALSE, FALSE)>>
    /\ duplicateIdPtr = FALSE
    /\ duplicateQuery = duplicateNone

\* td.listColumnsForSelectWithoutGenerated(): the columns that are not generated.
listColumnsForSelectWithoutGenerated(t) == SelectSeq(t, LAMBDA c : ~c.Generated)

\* writeInsertReturning(b, columnKey): the text it appends.
writeInsertReturning(columnKey) == <<" RETURNING ", columnKey>>

BuildDuplicateQuery(t, ptr) ==
    LET pk == PrimaryKey(t)
    IN  IF pk = 0 THEN [duplicateNone EXCEPT !.err = "duplicate: no primary key"]
        ELSE LET returningColumn == IF ptr THEN t[pk].Name ELSE ""
                 columns == listColumnsForSelectWithoutGenerated(t)
             IN  [err     |-> "",
                  columns |-> [k \in 1..Len(columns) |-> columns[k].Name],
                  select  |-> [k \in 1..Len(columns) |->
                                 [col |-> columns[k].Name,
                                  coalesce |-> IF columns[k].SelfReference
                                               THEN t[pk].Name ELSE ""]],
                  where   |-> t[pk].Name,
                  tail    |-> writeInsertReturning(returningColumn) \o <<";">>]

BuildDuplicate ==
    /\ duplicateQuery = duplicateNone
    /\ duplicateQuery' = BuildDuplicateQuery(duplicateTd, duplicateIdPtr)
    /\ UNCHANGED <<duplicateTd, duplicateIdPtr>>
    /\ DuplicateFrame

NextDuplicate == BuildDuplicate

----------------------------------------------------------------------------
(***************************************************************************)
(* Texts. A string the code takes apart (an annotation, the text of a      *)
(* constraint, the name of a data type) is the sequence of its characters, *)
(* so that the functions of package strings and the regular expressions    *)
(* are computed on it. The characters are ASCII. A position counts from 1, *)
(* and 0 stands for "not found" (Go counts from 0 and returns -1).         *)
(***************************************************************************)

lowerLetters ==
    <<"a", "b", "c", "d", "e", "f", "g", "h", "i", "j", "k", "l", "m", "n", "o", "p", "q", "r", "s", "t", "u", "v", "w", "x", "y", "z">>

upperLetters ==
    <<"A", "B", "C", "D", "E", "F", "G", "H", "I", "J", "K", "L", "M", "N", "O", "P", "Q", "R", "S", "T", "U", "V", "W", "X", "Y", "Z">>

Range(s) == {s[i] : i \in 1..Len(s)}

\* \w of a regular expression: [0-9A-Za-z_].
IsWord(ch) == ch \in Range(lowerLetters) \cup Range(upperLetters) \cup Range(<<"0", "1", "2", "3", "4", "5", "6", "7", "8", "9", "_">>)

\* \s of a regular expression, and the ASCII characters strings.TrimSpace cuts.
IsSpace(ch) == ch \in {" ", "\t", "\n", "\f", "\r"}

LetterIndex(letters, ch) == CHOOSE i \in 1..Len(letters) : letters[i] = ch

\* strings.ToLower
ToLower(s) ==
    [i \in 1..Len(s) |->
        IF s[i] \in Range(upperLetters) THEN lowerLetters[LetterIndex(upperLetters, s[i])]
        ELSE s[i]]

\* strings.ToUpper
ToUpper(s) ==
    [i \in 1..Len(s) |->
        IF s[i] \in Range(lowerLetters) THEN upperLetters[LetterIndex(lowerLetters, s[i])]
        ELSE s[i]]

\* s[from:] of Go, with from counted from 1.
From(s, from) == SubSeq(s, from, Len(s))

\* substr is in s at position i.
At(s, i, substr) ==
    /\ i >= 1
    /\ i + Len(substr) - 1 <= Len(s)
    /\ SubSeq(s, i, i + Len(substr) - 1) = substr

\* substr is in s at position i, whatever the case of the letters: a literal
\* under the flag (?i) of a regular expression.
AtFold(s, i, substr) == At(ToLower(s), i, ToLower(substr))

\* strings.Index
Index(s, substr) ==
    IF \E i \in 1..(Len(s) + 1) : At(s, i, substr)
    THEN CHOOSE i \in 1..(Len(s) + 1) :
            At(s, i, substr) /\ \A j \in 1..(i - 1) : ~At(s, j, substr)
    ELSE 0

\* strings.IndexByte and strings.IndexRune, for a character c.
IndexByte(s, c) == Index(s, <<c>>)

\* strings.LastIndexByte
LastIndexByte(s, c) ==
    IF \E i \in 1..Len(s) : s[i] = c
    THEN CHOOSE i \in 1..Len(s) : s[i] = c /\ \A j \in (i + 1)..Len(s) : s[j] # c
    ELSE 0

\* strings.Contains
Contains(s, substr) == Index(s, substr) # 0

\* strings.HasPrefix and strings.HasSuffix
HasPrefix(s, prefix) == At(s, 1, prefix)
HasSuffix(s, suffix) == At(s, Len(s) - Len(suffix) + 1, suffix)

\* strings.TrimPrefix and strings.TrimSuffix
TrimPrefix(s, prefix) == IF HasPrefix(s, prefix) THEN From(s, Len(prefix) + 1) ELSE s
TrimSuffix(s, suffix) ==
    IF HasSuffix(s, suffix) THEN SubSeq(s, 1, Len(s) - Len(suffix)) ELSE s

\* strings.TrimSpace
RECURSIVE TrimSpace(_)
TrimSpace(s) ==
    IF s # <<>> /\ IsSpace(s[1]) THEN TrimSpace(Tail(s))
    ELSE IF s # <<>> /\ IsSpace(s[Len(s)]) THEN TrimSpace(SubSeq(s, 1, Len(s) - 1))
    ELSE s

\* strings.SplitN(s, sep, n) for n > 0 and a sep that is not empty: at most n
\* pieces, the last one the unsplit rest.
RECURSIVE SplitN(_, _, _)
SplitN(s, sep, n) ==
    IF n = 1 \/ Index(s, sep) = 0 THEN <<s>>
    ELSE <<SubSeq(s, 1, Index(s, sep) - 1)>>
         \o SplitN(From(s, Index(s, sep) + Len(sep)), sep, n - 1)

\* strings.Split(s, sep) for a sep that is not empty.
Split(s, sep) == SplitN(s, sep, Len(s) + 1)

\* strings.Join
RECURSIVE Join(_, _)
Join(elems, sep) ==
    IF elems = <<>> THEN <<>>
    ELSE IF Len(elems) = 1 THEN elems[1]
    ELSE elems[1] \o sep \o Join(Tail(elems), sep)

\* The position after the longest run of word characters that starts at i:
\* what a greedy \w* or \w+ of a regular expression consumes there.
RECURSIVE WordRun(_, _)
WordRun(s, i) == IF i <= Len(s) /\ IsWord(s[i]) THEN WordRun(s, i + 1) ELSE i

\* The position after the longest run of white space that starts at i: what a
\* greedy \s* or \s+ consumes there.
RECURSIVE SpaceRun(_, _)
SpaceRun(s, i) == IF i <= Len(s) /\ IsSpace(s[i]) THEN SpaceRun(s, i + 1) ELSE i

----------------------------------------------------------------------------
(***************************************************************************)
(* The annotation parser and printer: convertStructFieldToColumnDefinion   *)
(* with ParseDataType, parseIndexType and parseReferenceTagValue, and      *)
(* Column.FieldTagString.                                                  *)
(*                                                                         *)
(* The annotation is the text field.Tag.Get("pg") returns, and every text  *)
(* of a Column (Name, TypeArgument, Default, ...) is a text as well. A     *)
(* data type and an index type are written by the name of their constant   *)
(* in the code ("Integer", "Btree"). A struct field is the column name     *)
(* ToColumnName gives it and the data type goTypeToDataType gives its Go   *)
(* type, InvalidDataType for a Go type with no data type of its own.       *)
(***************************************************************************)

TagFrame == UNCHANGED <<installVars, listenerVars, txVars, insertVars, updateVars,
    duplicateVars, dumpVars, checkVars, constraintVars, listVars, scanVars,
    handleVars, closeVars, derivedVars, registerVars, repositoryVars, cronVars>>

\* dataTypeText: the names of each data type, the first one being what
\* DataType.String returns. No name belongs to two data types.
dataTypeText ==
    <<
      [Type |-> "BigInt", Names |-> <<<<"b", "i", "g", "i", "n", "t">>, <<"i", "n", "t", "8">>>>],
      [Type |-> "BigIntArray", Names |-> <<<<"b", "i", "g", "i", "n", "t", "[", "]">>, <<"i", "n", "t", "8", "[", "]">>>>],
      [Type |-> "BigSerial", Names |-> <<<<"b", "i", "g", "s", "e", "r", "i", "a", "l">>, <<"s", "e", "r", "i", "a", "l", "8">>>>],
      [Type |-> "Bit", Names |-> <<<<"b", "i", "t">>>>],
      [Type |-> "BitVarying", Names |-> <<<<"v", "a", "r", "b", "i", "t">>, <<"b", "i", "t", " ", "v", "a", "r", "y", "i", "n", "g">>>>],
      [Type |-> "Boolean", Names |-> <<<<"b", "o", "o", "l", "e", "a", "n">>, <<"b", "o", "o", "l">>>>],
      [Type |-> "Box", Names |-> <<<<"b", "o", "x">>>>],
      [Type |-> "Bytea", Names |-> <<<<"b", "y", "t", "e", "a">>>>],
      [Type |-> "Character", Names |-> <<<<"c", "h", "a", "r", "a", "c", "t", "e", "r">>, <<"c", "h", "a", "r">>>>],
      [Type |-> "CharacterArray", Names |-> <<<<"c", "h", "a", "r", "a", "c", "t", "e", "r", "[", "]">>, <<"c", "h", "a", "r", "[", "]">>>>],
      [Type |-> "CharacterVarying", Names |-> <<<<"v", "a", "r", "c", "h", "a", "r">>, <<"c", "h", "a", "r", "a", "c", "t", "e", "r", " ", "v", "a", "r", "y", "i", "n", "g">>>>],
      [Type |-> "CharacterVaryingArray", Names |-> <<<<"v", "a", "r", "c", "h", "a", "r", "[", "]">>, <<"c", "h", "a", "r", "a", "c", "t", "e", "r", " ", "v", "a", "r", "y", "i", "n", "g", "[", "]">>>>],
      [Type |-> "Cidr", Names |-> <<<<"c", "i", "d", "r">>>>],
      [Type |-> "Circle", Names |-> <<<<"c", "i", "r", "c", "l", "e">>>>],
      [Type |-> "Date", Names |-> <<<<"d", "a", "t", "e">>>>],
      [Type |-> "DoublePrecision", Names |-> <<<<"f", "l", "o", "a", "t", "8">>, <<"d", "o", "u", "b", "l", "e", " ", "p", "r", "e", "c", "i", "s", "i", "o", "n">>>>],
      [Type |-> "Inet", Names |-> <<<<"i", "n", "e", "t">>>>],
      [Type |-> "Integer", Names |-> <<<<"i", "n", "t">>, <<"i", "n", "t", "4">>, <<"i", "n", "t", "e", "g", "e", "r">>>>],
      [Type |-> "IntegerArray", Names |-> <<<<"i", "n", "t", "[", "]">>, <<"i", "n", "t", "4", "[", "]">>, <<"i", "n", "t", "e", "g", "e", "r", "[", "]">>>>],
      [Type |-> "IntegerDoubleArray", Names |-> <<<<"i", "n", "t", "[", "]", "[", "]">>, <<"i", "n", "t", "4", "[", "]", "[", "]">>, <<"i", "n", "t", "e", "g", "e", "r", "[", "]", "[", "]">>>>],
      [Type |-> "Array", Names |-> <<<<"a", "r", "r", "a", "y">>>>],
      [Type |-> "Interval", Names |-> <<<<"i", "n", "t", "e", "r", "v", "a", "l">>>>],
      [Type |-> "JSON", Names |-> <<<<"j", "s", "o", "n">>>>],
      [Type |-> "JSONB", Names |-> <<<<"j", "s", "o", "n", "b">>>>],
      [Type |-> "Line", Names |-> <<<<"l", "i", "n", "e">>>>],
      [Type |-> "Lseg", Names |-> <<<<"l", "s", "e", "g">>>>],
      [Type |-> "MACAddr", Names |-> <<<<"m", "a", "c", "a", "d", "d", "r">>>>],
      [Type |-> "MACAddr8", Names |-> <<<<"m", "a", "c", "a", "d", "d", "r", "8">>>>],
      [Type |-> "Money", Names |-> <<<<"m", "o", "n", "e", "y">>>>],
      [Type |-> "Numeric", Names |-> <<<<"n", "u", "m", "e", "r", "i", "c">>, <<"d", "e", "c", "i", "m", "a", "l">>>>],
      [Type |-> "Path", Names |-> <<<<"p", "a", "t", "h">>>>],
      [Type |-> "PgLSN", Names |-> <<<<"p", "g", "_", "l", "s", "n">>>>],
      [Type |-> "Point", Names |-> <<<<"p", "o", "i", "n", "t">>>>],
      [Type |-> "Polygon", Names |-> <<<<"p", "o", "l", "y", "g", "o", "n">>>>],
      [Type |-> "Real", Names |-> <<<<"r", "e", "a", "l">>, <<"f", "l", "o", "a", "t", "4">>>>],
      [Type |-> "SmallInt", Names |-> <<<<"s", "m", "a", "l", "l", "i", "n", "t">>, <<"i", "n", "t", "2">>>>],
      [Type |-> "SmallSerial", Names |-> <<<<"s", "m", "a", "l", "l", "s", "e", "r", "i", "a", "l">>, <<"s", "e", "r", "i", "a", "l", "2">>>>],
      [Type |-> "Serial", Names |-> <<<<"s", "e", "r", "i", "a", "l", "4">>>>],
      [Type |-> "Text", Names |-> <<<<"t", "e", "x", "t">>>>],
      [Type |-> "TextArray", Names |-> <<<<"t", "e", "x", "t", "[", "]">>>>],
      [Type |-> "TextDoubleArray", Names |-> <<<<"t", "e", "x", "t", "[", "]", "[", "]">>>>],
      [Type |-> "Time", Names |-> <<<<"t", "i", "m", "e">>, <<"t", "i", "m", "e", " ", "w", "i", "t", "h", "o", "u", "t", " ", "t", "i", "m", "e", " ", "z", "o", "n", "e">>, <<"t", "i", "m", "e", "(", "6", ")", " ", "w", "i", "t", "h", "o", "u", "t", " ", "t", "i", "m", "e", " ", "z", "o", "n", "e">>>>],
      [Type |-> "TimeTZ", Names |-> <<<<"t", "i", "m", "e", "t", "z">>, <<"t", "i", "m", "e", " ", "w", "i", "t", "h", " ", "t", "i", "m", "e", " ", "z", "o", "n", "e">>, <<"t", "i", "m", "e", "(", "6", ")", " ", "w", "i", "t", "h", " ", "t", "i", "m", "e", " ", "z", "o", "n", "e">>>>],
      [Type |-> "Timestamp", Names |-> <<<<"t", "i", "m", "e", "s", "t", "a", "m", "p">>, <<"t", "i", "m", "e", "s", "t", "a", "m", "p", " ", "w", "i", "t", "h", "o", "u", "t", " ", "t", "i", "m", "e", " ", "z", "o", "n", "e">>, <<"t", "i", "m", "e", "s", "t", "a", "m", "p", "(", "6", ")", " ", "w", "i", "t", "h", "o", "u", "t", " ", "t", "i", "m", "e", " ", "z", "o", "n", "e">>>>],
      [Type |-> "TimestampTZ", Names |-> <<<<"t", "i", "m", "e", "s", "t", "a", "m", "p", "t", "z">>, <<"t", "i", "m", "e", "s", "t", "a", "m", "p", " ", "w", "i", "t", "h", " ", "t", "i", "m", "e", " ", "z", "o", "n", "e">>, <<"t", "i", "m", "e", "s", "t", "a", "m", "p", "(", "6", ")", " ", "w", "i", "t", "h", " ", "t", "i", "m", "e", " ", "z", "o", "n", "e">>>>],
      [Type |-> "TsQuery", Names |-> <<<<"t", "s", "q", "u", "e", "r", "y">>>>],
      [Type |-> "TsVector", Names |-> <<<<"t", "s", "v", "e", "c", "t", "o", "r">>>>],
      [Type |-> "TxIDSnapshot", Names |-> <<<<"t", "x", "i", "d", "_", "s", "n", "a", "p", "s", "h", "o", "t">>>>],
      [Type |-> "UUID", Names |-> <<<<"u", "u", "i", "d">>>>],
      [Type |-> "UUIDArray", Names |-> <<<<"u", "u", "i", "d", "[", "]">>>>],
      [Type |-> "XML", Names |-> <<<<"x", "m", "l">>>>],
      [Type |-> "Int4Range", Names |-> <<<<"i", "n", "t", "4", "r", "a", "n", "g", "e">>>>],
      [Type |-> "Int4MultiRange", Names |-> <<<<"i", "n", "t", "4", "m", "u", "l", "t", "i", "r", "a", "n", "g", "e">>>>],
      [Type |-> "Int8Range", Names |-> <<<<"i", "n", "t", "8", "r", "a", "n", "g", "e">>>>],
      [Type |-> "Int8MultiRange", Names |-> <<<<"i", "n", "t", "8", "m", "u", "l", "t", "i", "r", "a", "n", "g", "e">>>>],
      [Type |-> "NumRange", Names |-> <<<<"n", "u", "m", "r", "a", "n", "g", "e">>>>],
      [Type |-> "NumMultiRange", Names |-> <<<<"n", "u", "m", "m", "u", "l", "t", "i", "r", "a", "n", "g", "e">>>>],
      [Type |-> "TsRange", Names |-> <<<<"t", "s", "r", "a", "n", "g", "e">>>>],
      [Type |-> "TsMultirange", Names |-> <<<<"t", "s", "m", "u", "l", "t", "i", "r", "a", "n", "g", "e">>>>],
      [Type |-> "TsTzRange", Names |-> <<<<"t", "s", "t", "z", "r", "a", "n", "g", "e">>>>],
      [Type |-> "TsTzMultiRange", Names |-> <<<<"t", "s", "t", "z", "m", "u", "l", "t", "i", "r", "a", "n", "g", "e">>>>],
      [Type |-> "DateRange", Names |-> <<<<"d", "a", "t", "e", "r", "a", "n", "g", "e">>>>],
      [Type |-> "DateMultiRange", Names |-> <<<<"d", "a", "t", "e", "m", "u", "l", "t", "i", "r", "a", "n", "g", "e">>>>],
      [Type |-> "CIText", Names |-> <<<<"c", "i", "t", "e", "x", "t">>>>],
      [Type |-> "HStore", Names |-> <<<<"h", "s", "t", "o", "r", "e">>>>]
    >>

\* DataType.String
String(t) ==
    IF \E k \in 1..Len(dataTypeText) : dataTypeText[k].Type = t
    THEN dataTypeText[CHOOSE k \in 1..Len(dataTypeText) : dataTypeText[k].Type = t].Names[1]
    ELSE <<"D", "a", "t", "a", "T", "y", "p", "e", "(", "u", "n", "e", "x", "p", "e", "c", "t", "e", "d", " ", "0", ")">>

\* ParseDataType: the data type of a name, whatever its case, and the argument
\* between the parentheses the name ends with.
ParseDataType(str) ==
    LET lower == ToLower(str)
        idx   == IndexByte(lower, "(")
        cut   == LastIndexByte(lower, ")") = Len(lower) /\ idx # 0
        s     == IF cut THEN SubSeq(lower, 1, idx - 1) ELSE lower
        hits  == {k \in 1..Len(dataTypeText) :
                     \E n \in 1..Len(dataTypeText[k].Names) : dataTypeText[k].Names[n] = s}
    IN  IF hits = {} THEN [Type |-> "InvalidDataType", Argument |-> <<>>]
        ELSE [Type |-> dataTypeText[CHOOSE k \in hits : TRUE].Type,
              Argument |-> IF cut THEN SubSeq(lower, idx + 1, Len(lower) - 1) ELSE <<>>]

\* indexTypeText
indexTypeText ==
    <<[Type |-> "Btree", Name |-> <<"b", "t", "r", "e", "e">>], [Type |-> "Hash", Name |-> <<"h", "a", "s", "h">>],
      [Type |-> "Gist", Name |-> <<"g", "i", "s", "t">>], [Type |-> "Spgist", Name |-> <<"s", "p", "g", "i", "s", "t">>],
      [Type |-> "Gin", Name |-> <<"g", "i", "n">>], [Type |-> "Brin", Name |-> <<"b", "r", "i", "n">>]>>

\* IndexType.String, for an index type that is not InvalidIndex.
IndexTypeString(t) ==
    indexTypeText[CHOOSE k \in 1..Len(indexTypeText) : indexTypeText[k].Type = t].Name

\* parseIndexType: the index type of a name, whatever its case.
parseIndexType(s) ==
    LET hits == {k \in 1..Len(indexTypeText) : indexTypeText[k].Name = ToLower(s)}
    IN  IF hits = {} THEN "InvalidIndex" ELSE indexTypeText[CHOOSE k \in hits : TRUE].Type

\* strconv.ParseBool
ParseBoolOk(v) ==
    v \in {<<"1">>, <<"t">>, <<"T">>, <<"T", "R", "U", "E">>, <<"t", "r", "u", "e">>, <<"T", "r", "u", "e">>,
           <<"0">>, <<"f">>, <<"F">>, <<"F", "A", "L", "S", "E">>, <<"f", "a", "l", "s", "e">>, <<"F", "a", "l", "s", "e">>}
ParseBool(v) == v \in {<<"1">>, <<"t">>, <<"T">>, <<"T", "R", "U", "E">>, <<"t", "r", "u", "e">>, <<"T", "r", "u", "e">>}

\* The alternatives of the third group of refLineRegex, in its order.
refActions == <<<<"n", "o", " ", "a", "c", "t", "i", "o", "n">>, <<"c", "a", "s", "c", "a", "d", "e">>, <<"r", "e", "s", "t", "r", "i", "c", "t">>, <<"s", "e", "t", " ", "n", "u", "l", "l">>, <<"s", "e", "t", " ", "d", "e", "f", "a", "u", "l", "t">>>>

\* Alternative k of the third group; 0 stands for the group left out.
refAction(k) == IF k = 0 THEN <<>> ELSE refActions[k]

noMatch == <<>>

\* The pattern of refLineRegex inside the parentheses,
\*   (\w+)\s*(no action|cascade|restrict|set null|set default)?\s*(\w*)?
\* matches the whole of inner with a first group of n characters, the white
\* space that follows it ending before q, and alternative k at q.
refFits(inner, n, k, q) ==
    /\ AtFold(inner, q, refAction(k))
    /\ WordRun(inner, SpaceRun(inner, q + Len(refAction(k)))) = Len(inner) + 1

\* The four groups of that match, after the table name.
refGroups(tableName, inner, n, k, q) ==
    <<tableName, SubSeq(inner, 1, n), SubSeq(inner, q, q + Len(refAction(k)) - 1),
      From(inner, SpaceRun(inner, q + Len(refAction(k))))>>

\* The match the pattern prefers among fits, pairs of n and k: the longest
\* first group, and with it an alternative rather than none.
refPreferred(fits) ==
    CHOOSE f \in fits :
        \A g \in fits : g[1] < f[1] \/ (g[1] = f[1] /\ (g[2] = 0 \/ g[2] = f[2]))

\* The groups for a table name and the text between the parentheses.
refInner(tableName, inner) ==
    LET fits == {f \in (1..(WordRun(inner, 1) - 1)) \X (0..Len(refActions)) :
                    refFits(inner, f[1], f[2], SpaceRun(inner, f[1] + 1))}
    IN  IF fits = {} THEN noMatch
        ELSE refGroups(tableName, inner, refPreferred(fits)[1], refPreferred(fits)[2],
                       SpaceRun(inner, refPreferred(fits)[1] + 1))

\* The start of the longest run of word characters that ends before open, 0
\* if there is none.
refTableStart(val, open) ==
    IF \E i \in 1..(open - 1) : WordRun(val, i) = open
    THEN CHOOSE i \in 1..(open - 1) :
            WordRun(val, i) = open /\ \A j \in 1..(i - 1) : WordRun(val, j) # open
    ELSE 0

\* refLineRegex.FindStringSubmatch(val), without the whole match: the four
\* groups of the leftmost match of
\*   (?i)(\w+)\((\w+)\s*(no action|cascade|restrict|set null|set default)?\s*(\w*)?\)$
\* or noMatch. Nothing the pattern accepts after its "(" is a parenthesis
\* but the last character, so the "(" is the last one of val, and the first
\* group is the longest run of word characters before it.
refLineRegex(val) ==
    LET open == LastIndexByte(val, "(")
    IN  IF open = 0 \/ val[Len(val)] # ")" \/ refTableStart(val, open) = 0 THEN noMatch
        ELSE refInner(SubSeq(val, refTableStart(val, open), open - 1),
                      SubSeq(val, open + 1, Len(val) - 1))

refError == [err |-> "invalid reference tag", refTableName |-> <<>>,
             refColumnName |-> <<>>, onDeleteAction |-> <<>>, isDeferrable |-> FALSE]

\* isForeignKeyOnDeleteActionValid
isForeignKeyOnDeleteActionValid(s) ==
    ToUpper(s) \in {<<"N", "O", " ", "A", "C", "T", "I", "O", "N">>, <<"C", "A", "S", "C", "A", "D", "E">>, <<"R", "E", "S", "T", "R", "I", "C", "T">>, <<"S", "E", "T", " ", "N", "U", "L", "L">>, <<"S", "E", "T", " ", "D", "E", "F", "A", "U", "L", "T">>}

\* parseReferenceTagValue
parseReferenceTagValue(val) ==
    LET validated(matches, onDeleteAction, deferrableValue) ==
            IF deferrableValue # <<>> /\ deferrableValue # <<"D", "E", "F", "E", "R", "R", "A", "B", "L", "E">> THEN refError
            ELSE IF ~isForeignKeyOnDeleteActionValid(onDeleteAction) THEN refError
            ELSE IF deferrableValue = <<"D", "E", "F", "E", "R", "R", "A", "B", "L", "E">> /\ onDeleteAction = <<"R", "E", "S", "T", "R", "I", "C", "T">>
            THEN refError
            ELSE [err |-> "", refTableName |-> matches[1], refColumnName |-> matches[2],
                  onDeleteAction |-> onDeleteAction,
                  isDeferrable |-> deferrableValue = <<"D", "E", "F", "E", "R", "R", "A", "B", "L", "E">>]
        upper(matches, action) ==
            validated(matches, IF action = <<>> THEN <<"C", "A", "S", "C", "A", "D", "E">> ELSE action,
                      ToUpper(matches[4]))
        matched(matches) ==
            IF matches = noMatch THEN refError ELSE upper(matches, ToUpper(matches[3]))
    IN  matched(refLineRegex(val))

\* The options annotations are made of.
TagOptions ==
    { <<"n", "a", "m", "e", "=", "t", "i", "t", "l", "e">>,
      <<"t", "y", "p", "e", "=", "i", "n", "t">>, <<"t", "y", "p", "e", "=", "I", "N", "T">>, <<"t", "y", "p", "e", "=", "v", "a", "r", "c", "h", "a", "r", "(", "2", "5", "5", ")">>, <<"t", "y", "p", "e", "=", "u", "u", "i", "d">>, <<"t", "y", "p", "e", "=", "b", "i", "g", "i", "n", "t", "[", "]">>,
      <<"t", "y", "p", "e", "=", "t", "i", "m", "e", "s", "t", "a", "m", "p", "(", "6", ")", " ", "w", "i", "t", "h", "o", "u", "t", " ", "t", "i", "m", "e", " ", "z", "o", "n", "e">>, <<"t", "y", "p", "e", "=", "t", "s", "v", "e", "c", "t", "o", "r">>, <<"t", "y", "p", "e", "=", "b", "o", "g", "u", "s">>,
      <<"t", "y", "p", "e", "=", "v", "a", "r", "c", "h", "a", "r", "(", "2", "5", "5">>, <<"t", "y", "p", "e", "=", "a", ")", "(">>,
      <<"p", "r", "i", "m", "a", "r", "y">>, <<"p", "r", "i", "m", "a", "r", "y", "=", "m", "a", "y", "b", "e">>,
      <<"i", "d", "e", "n", "t", "i", "t", "y">>,
      <<"d", "e", "f", "a", "u", "l", "t", "=", "5">>, <<"d", "e", "f", "a", "u", "l", "t", "=", "n", "u", "l", "l">>, <<"d", "e", "f", "a", "u", "l", "t", "=", "a", ":", ":", "c", "h", "a", "r", "a", "c", "t", "e", "r", " ", "v", "a", "r", "y", "i", "n", "g">>,
      <<"u", "n", "i", "q", "u", "e">>,
      <<"c", "o", "n", "f", "l", "i", "c", "t", "=", "D", "O", " ", "N", "O", "T", "H", "I", "N", "G">>,
      <<"u", "s", "e", "r", "n", "a", "m", "e">>,
      <<"p", "a", "s", "s", "w", "o", "r", "d">>,
      <<"n", "u", "l", "l", "a", "b", "l", "e">>, <<"n", "u", "l", "l", "a", "b", "l", "e", "=", "f", "a", "l", "s", "e">>,
      <<"r", "e", "f", "=", "i", "d">>, <<"r", "e", "f", "=", "b", "l", "o", "g", "s", "(", "i", "d", ")">>, <<"r", "e", "f", "=", "b", "l", "o", "g", "s", "(", "i", "d", " ", "n", "o", " ", "a", "c", "t", "i", "o", "n", ")">>,
      <<"r", "e", "f", "=", "b", "l", "o", "g", "s", "(", "i", "d", " ", "S", "e", "t", " ", "D", "e", "f", "a", "u", "l", "t", ")">>, <<"r", "e", "f", "=", "b", "l", "o", "g", "s", "(", "i", "d", " ", "s", "e", "t", " ", "n", "u", "l", "l", " ", "d", "e", "f", "e", "r", "r", "a", "b", "l", "e", ")">>,
      <<"r", "e", "f", "=", "b", "l", "o", "g", "s", "(", "i", "d", " ", "r", "e", "s", "t", "r", "i", "c", "t", " ", "d", "e", "f", "e", "r", "r", "a", "b", "l", "e", ")">>, <<"r", "e", "f", "=", "b", "l", "o", "g", "s", "(", "i", "d", " ", "f", "o", "o", ")">>,
      <<"i", "n", "d", "e", "x">>, <<"i", "n", "d", "e", "x", "=", "H", "A", "S", "H">>,
      <<"u", "n", "i", "q", "u", "e", "_", "i", "n", "d", "e", "x">>, <<"u", "n", "i", "q", "u", "e", "_", "i", "n", "d", "e", "x", "=", "u", "k", "_", "a">>,
      <<"c", "h", "e", "c", "k", "=", "p", "r", "i", "c", "e", " ", ">", " ", "0">>,
      <<"a", "u", "t", "o", "=", "f", "a", "l", "s", "e">>,
      <<"p", "r", "e", "s", "e", "n", "t", "e", "r">>,
      <<"u", "n", "s", "c", "a", "n", "n", "a", "b", "l", "e">>,
      <<"f", "o", "o">>, <<"f", "o", "o", "=", "b", "a", "r">>,
      <<>> }

\* The keys convertStructFieldToColumnDefinion has a case for.
KnownKeys ==
    {<<"n", "a", "m", "e">>, <<"t", "y", "p", "e">>, <<"p", "r", "i", "m", "a", "r", "y">>, <<"p", "k">>, <<"i", "d", "e", "n", "t", "i", "t", "y">>, <<"d", "e", "f", "a", "u", "l", "t">>, <<"u", "n", "i", "q", "u", "e">>,
     <<"c", "o", "n", "f", "l", "i", "c", "t">>, <<"u", "s", "e", "r", "n", "a", "m", "e">>, <<"p", "a", "s", "s", "w", "o", "r", "d">>, <<"n", "u", "l", "l", "a", "b", "l", "e">>, <<"n", "u", "l", "l">>, <<"r", "e", "f">>,
     <<"r", "e", "f", "e", "r", "e", "n", "c", "e">>, <<"r", "e", "f", "e", "r", "e", "n", "c", "e", "s">>, <<"i", "n", "d", "e", "x">>, <<"u", "n", "i", "q", "u", "e", "_", "i", "n", "d", "e", "x">>, <<"c", "h", "e", "c", "k">>, <<"a", "u", "t", "o">>,
     <<"p", "r", "e", "s", "e", "n", "t", "e", "r">>, <<"u", "n", "s", "c", "a", "n", "n", "a", "b", "l", "e">>}

\* The tableName argument of convertStructFieldToColumnDefinion.
TagTableName == <<"b", "l", "o", "g", "_", "p", "o", "s", "t", "s">>

\* c := &Column{Name: ToColumnName(field), Type: goTypeToDataType(field.Type)}
NewColumn(f) ==
    [Name |-> f.Name, Type |-> f.Type, TypeArgument |-> <<>>, PrimaryKey |-> FALSE,
     Identity |-> FALSE, Default |-> <<>>, CheckConstraint |-> <<>>, Unique |-> FALSE,
     Conflict |-> <<>>, Username |-> FALSE, Password |-> FALSE, Nullable |-> FALSE,
     ReferenceTableName |-> <<>>, ReferenceColumnName |-> <<>>,
     ReferenceOnDelete |-> <<>>, DeferrableReference |-> FALSE, Index |-> "InvalidIndex",
     UniqueIndex |-> <<>>, AutoGenerated |-> FALSE, Presenter |-> FALSE,
     Unscannable |-> FALSE]

parseNone == [c |-> NewColumn([Name |-> <<>>, Type |-> "InvalidDataType"]),
              err |-> "not parsed"]

\* The annotations of up to n options, joined by commas.
TagsOf(n) == {Join(options, <<",">>) : options \in UNION {[1..k -> TagOptions] : k \in 0..n}}

TagInit ==
    /\ field \in [Name : {<<"c", "r", "e", "a", "t", "e", "d">>}, Type : {"Integer", "InvalidDataType"}]
    /\ fieldTag \in TagsOf(MaxOptions)
    /\ parsed = parseNone
    /\ rendered = <<>>
    /\ reparsed = parseNone

TagIdle ==
    /\ field = [Name |-> <<"c", "r", "e", "a", "t", "e", "d">>, Type |-> "Integer"]
    /\ fieldTag = <<>>
    /\ parsed = parseNone
    /\ rendered = <<>>
    /\ reparsed = parseNone

\* key of an option: kv[0] of strings.SplitN(opt, "=", 2).
OptionKey(opt) == SplitN(opt, <<"=">>, 2)[1]

\* value of an option: kv[1], and for an option with no "=" it is "true",
\* except for index (btree) and unique_index (left empty).
OptionValue(opt) ==
    IF Len(SplitN(opt, <<"=">>, 2)) = 2 THEN SplitN(opt, <<"=">>, 2)[2]
    ELSE IF opt = <<"i", "n", "d", "e", "x">> THEN IndexTypeString("Btree")
    ELSE IF opt = <<"u", "n", "i", "q", "u", "e", "_", "i", "n", "d", "e", "x">> THEN <<>>
    ELSE <<"t", "r", "u", "e">>

\* One option applied to the Column: the body of the loop over the options,
\* for an option that is not empty. A slice expression out of range panics.
ApplyOption(c, opt) ==
    LET key     == OptionKey(opt)
        val   == OptionValue(opt)
        ok(col) == [c |-> col, err |-> ""]
        fail(msg) == [c |-> c, err |-> msg]
        bool(col) == IF ParseBoolOk(val) THEN ok(col)
                     ELSE fail("strconv.ParseBool: invalid syntax")
        typed(col, name) ==
            ok([col EXCEPT !.Type = ParseDataType(name).Type,
                           !.Unscannable = IF ParseDataType(name).Type = "TsVector"
                                           THEN TRUE ELSE @])
    IN  CASE key = <<"n", "a", "m", "e">> -> ok([c EXCEPT !.Name = val])
          [] key = <<"t", "y", "p", "e">> ->
                LET leftParenIndex  == IndexByte(val, "(")
                    rightParenIndex == IndexByte(val, ")")
                IN  IF leftParenIndex <= 1 THEN typed(c, val)
                    ELSE IF rightParenIndex = 0 THEN fail("type: missing right parenthesis")
                    ELSE IF rightParenIndex < leftParenIndex
                    THEN fail("panic: slice bounds out of range")
                    ELSE typed([c EXCEPT !.TypeArgument =
                                    SubSeq(val, leftParenIndex + 1, rightParenIndex - 1)],
                               TrimSpace(SubSeq(val, 1, leftParenIndex - 1)))
          [] key \in {<<"p", "r", "i", "m", "a", "r", "y">>, <<"p", "k">>} -> bool([c EXCEPT !.PrimaryKey = ParseBool(val)])
          [] key = <<"i", "d", "e", "n", "t", "i", "t", "y">> ->
                bool([c EXCEPT !.Identity = ParseBool(val), !.AutoGenerated = TRUE])
          [] key = <<"d", "e", "f", "a", "u", "l", "t">> ->
                ok([c EXCEPT !.Default = val,
                             !.Nullable = IF val = <<"n", "u", "l", "l">> THEN TRUE ELSE @])
          [] key = <<"u", "n", "i", "q", "u", "e">> -> bool([c EXCEPT !.Unique = ParseBool(val)])
          [] key = <<"c", "o", "n", "f", "l", "i", "c", "t">> -> ok([c EXCEPT !.Conflict = val])
          [] key = <<"u", "s", "e", "r", "n", "a", "m", "e">> -> bool([c EXCEPT !.Username = ParseBool(val)])
          [] key = <<"p", "a", "s", "s", "w", "o", "r", "d">> -> bool([c EXCEPT !.Password = ParseBool(val)])
          [] key \in {<<"n", "u", "l", "l", "a", "b", "l", "e">>, <<"n", "u", "l", "l">>} ->
                bool(IF ParseBool(val)
                     THEN [c EXCEPT !.Default = <<"n", "u", "l", "l">>, !.Nullable = TRUE]
                     ELSE IF c.Default = <<"n", "u", "l", "l">> THEN [c EXCEPT !.Default = <<>>]
                     ELSE c)
          \* a value with no "(" refers to a column of this table; the test on
          \* strings.IndexRune(val, '(') that follows can then never fail
          [] key \in {<<"r", "e", "f">>, <<"r", "e", "f", "e", "r", "e", "n", "c", "e">>, <<"r", "e", "f", "e", "r", "e", "n", "c", "e", "s">>} ->
                LET referenced(r) ==
                        IF r.err # "" THEN fail(r.err)
                        ELSE ok([c EXCEPT !.ReferenceTableName = r.refTableName,
                                          !.ReferenceColumnName = r.refColumnName,
                                          !.ReferenceOnDelete = r.onDeleteAction,
                                          !.DeferrableReference = r.isDeferrable])
                IN  referenced(parseReferenceTagValue(
                                   IF ~Contains(val, <<"(">>)
                                   THEN TagTableName \o <<"(">> \o val \o <<")">> ELSE val))
          [] key = <<"i", "n", "d", "e", "x">> ->
                IF parseIndexType(val) = "InvalidIndex"
                THEN fail("invalid index type on tag")
                ELSE ok([c EXCEPT !.Index = parseIndexType(val)])
          [] key = <<"u", "n", "i", "q", "u", "e", "_", "i", "n", "d", "e", "x">> ->
                IF c.Unique
                THEN [c |-> [c EXCEPT !.UniqueIndex = val],
                      err |-> "unqiue and unique_index cannot be used together"]
                ELSE ok([c EXCEPT !.UniqueIndex = val])
          [] key = <<"c", "h", "e", "c", "k">> -> ok([c EXCEPT !.CheckConstraint = val])
          [] key = <<"a", "u", "t", "o">> -> bool([c EXCEPT !.AutoGenerated = ParseBool(val)])
          [] key = <<"p", "r", "e", "s", "e", "n", "t", "e", "r">> -> bool([c EXCEPT !.Presenter = ParseBool(val)])
          [] key = <<"u", "n", "s", "c", "a", "n", "n", "a", "b", "l", "e">> -> bool([c EXCEPT !.Unscannable = ParseBool(val)])
          \* default: the option came out of strings.Split(fieldTag, ","), so
          \* !strings.Contains(opt, ",") holds and the key becomes the name.
          [] OTHER ->
                IF ~Contains(opt, <<",">>) THEN ok([c EXCEPT !.Name = key])
                ELSE fail("unexpected tag option")

\* The loop over options: an empty option is skipped, and the loop returns at
\* the first option that fails.
RECURSIVE ApplyOptions(_, _)
ApplyOptions(c, options) ==
    IF options = <<>> THEN [c |-> c, err |-> ""]
    ELSE IF Head(options) = <<>> THEN ApplyOptions(c, Tail(options))
    ELSE LET r == ApplyOption(c, Head(options))
         IN  IF r.err # "" THEN r ELSE ApplyOptions(r.c, Tail(options))

characterVaryingCastText == <<":", ":", "c", "h", "a", "r", "a", "c", "t", "e", "r", " ", "v", "a", "r", "y", "i", "n", "g">>

\* What follows the loop: the default of a primary uuid, the type of a
\* password, the invalid data type error and the cast on a varchar default.
Finalize(c) ==
    LET c1 == IF c.PrimaryKey /\ ~c.Nullable /\ c.Type = "UUID" /\ c.Default = <<>>
                 /\ c.ReferenceColumnName = <<>>
              THEN [c EXCEPT !.Default = <<"g", "e", "n", "_", "r", "a", "n", "d", "o", "m", "_", "u", "u", "i", "d", "(", ")">>] ELSE c
        c2 == IF c1.Password /\ c1.Type = "InvalidDataType"
              THEN [c1 EXCEPT !.Type = "Text"] ELSE c1
        c3 == IF c2.Type = "CharacterVarying" /\ c2.Default # <<>>
                 /\ ~HasSuffix(ToLower(c2.Default), characterVaryingCastText)
              THEN [c2 EXCEPT !.Default = @ \o characterVaryingCastText] ELSE c2
    IN  IF c2.Type = "InvalidDataType" THEN [c |-> c2, err |-> "invalid data type on tag"]
        ELSE [c |-> c3, err |-> ""]

\* convertStructFieldToColumnDefinion for the field f whose annotation,
\* field.Tag.Get("pg"), is tag.
convertStructFieldToColumnDefinion(f, tag) ==
    LET r == ApplyOptions(NewColumn(f), Split(tag, <<",">>))
    IN  IF r.err # "" THEN r ELSE Finalize(r.c)

\* writeTagProp for a key with no verb and a boolean: the key when it is true.
Flag(key, b) == IF b THEN key ELSE <<>>

\* writeTagProp for a key with the verb %s, which stands between before and
\* after, and a text: nothing when the text is empty.
Prop(before, val, after) == IF val = <<>> THEN <<>> ELSE before \o val \o after

\* Column.FieldTagString(true) for a column of a table that is not read-only.
FieldTagString(c) ==
    <<"p", "g", ":", "\"">>
    \o Prop(<<"n", "a", "m", "e", "=">>, c.Name, <<>>)
    \o Prop(<<",", "t", "y", "p", "e", "=">>, String(c.Type), <<>>)
    \o Prop(<<"(">>, c.TypeArgument, <<")">>)
    \o Flag(<<",", "p", "r", "i", "m", "a", "r", "y">>, c.PrimaryKey)
    \o Flag(<<",", "i", "d", "e", "n", "t", "i", "t", "y">>, c.Identity)
    \o (IF c.Nullable THEN Flag(<<",", "n", "u", "l", "l", "a", "b", "l", "e">>, TRUE)
        ELSE Prop(<<",", "d", "e", "f", "a", "u", "l", "t", "=">>, c.Default, <<>>))
    \o Flag(<<",", "u", "n", "i", "q", "u", "e">>, c.Unique)
    \o Prop(<<",", "c", "o", "n", "f", "l", "i", "c", "t", "=">>, c.Conflict, <<>>)
    \o Flag(<<",", "u", "s", "e", "r", "n", "a", "m", "e">>, c.Username)
    \o Flag(<<",", "p", "a", "s", "s", "w", "o", "r", "d">>, c.Password)
    \o (IF c.ReferenceTableName = <<>> THEN <<>>
        ELSE Prop(<<",", "r", "e", "f", "=">>, c.ReferenceTableName, <<>>)
             \o (IF c.ReferenceColumnName = <<>> THEN <<>>
                 ELSE Prop(<<"(">>, c.ReferenceColumnName, <<>>)
                      \o (IF c.ReferenceOnDelete = <<>> THEN <<>>
                          ELSE <<" ">> \o c.ReferenceOnDelete)
                      \o Flag(<<" ", "d", "e", "f", "e", "r", "r", "a", "b", "l", "e">>, c.DeferrableReference)
                      \o <<")">>))
    \o (IF c.Index = "InvalidIndex" THEN <<>>
        ELSE Prop(<<",", "i", "n", "d", "e", "x", "=">>, IndexTypeString(c.Index), <<>>))
    \o Prop(<<",", "u", "n", "i", "q", "u", "e", "_", "i", "n", "d", "e", "x", "=">>, c.UniqueIndex, <<>>)
    \o Prop(<<",", "c", "h", "e", "c", "k", "=">>, c.CheckConstraint, <<>>)
    \o Flag(<<",", "a", "u", "t", "o">>, c.AutoGenerated)
    \o Flag(<<",", "p", "r", "e", "s", "e", "n", "t", "e", "r">>, c.Presenter)
    \o Flag(<<",", "u", "n", "s", "c", "a", "n", "n", "a", "b", "l", "e">>, c.Unscannable)
    \o <<"\"">>

\* field.Tag.Get("pg") for a struct tag that holds the one key pg and whose
\* value has no quote and no backslash: the text between the quotes.
TagGet(tag) == TrimSuffix(TrimPrefix(tag, <<"p", "g", ":", "\"">>), <<"\"">>)

Parse ==
    /\ parsed = parseNone
    /\ parsed' = convertStructFieldToColumnDefinion(field, fieldTag)
    /\ UNCHANGED <<field, fieldTag, rendered, reparsed>>
    /\ TagFrame

\* The accepted annotation is printed, and the printed one is parsed as the
\* annotation of the same field.
RenderAndParse ==
    /\ parsed.err = ""
    /\ reparsed = parseNone
    /\ rendered' = FieldTagString(parsed.c)
    /\ reparsed' = convertStructFieldToColumnDefinion(field,
                                                     TagGet(FieldTagString(parsed.c)))
    /\ UNCHANGED <<field, fieldTag, parsed>>
    /\ TagFrame

NextTag == Parse \/ RenderAndParse

----------------------------------------------------------------------------
(***************************************************************************)
(* The schema dump: DB.CreateSchemaDumpSQL with its four dumpers,          *)
(* createDatabaseSchemaDump, createExtensionsDump, createTablesDump (with  *)
(* createTableDump, createTableForeignKeysDump, Schema.Tables,             *)
(* Table.ForeignKeys and desc.BuildAlterTableForeignKeysQueries) and       *)
(* createFunctionsAndTriggersDump.                                         *)
(*                                                                         *)
(* A registered table carries Name, Type ("base", "view", "materialized"   *)
(* or "presenter") and References: for each of its foreign-key columns, in *)
(* column order, the name of the referenced table (the column is named     *)
(* after it). A statement of the dump is its kind, its table and, for the  *)
(* two ALTER TABLE statements of a foreign key, the column; for an         *)
(* extension the column field holds the name of the extension. The column  *)
(* types of the schema, its password columns, its trigger settings, the    *)
(* updated_at columns and the live triggers are inputs of the call.        *)
(***************************************************************************)

DumpFrame == UNCHANGED <<installVars, listenerVars, txVars, insertVars, updateVars,
    duplicateVars, tagVars, checkVars, constraintVars, listVars, scanVars,
    handleVars, closeVars, derivedVars, registerVars, repositoryVars, cronVars>>

\* Table names, by registered position.
RegisteredNames == <<"customers", "blogs", "blog_posts", "tags">>

TableTypes == {"base", "view", "materialized", "presenter"}

\* TableType.IsReadOnly
IsReadOnly(type) == type \in {"view", "materialized", "presenter"}

\* The schemas of n tables: a table has no foreign key, one to any table of the
\* schema, or one to the last table and a second to the first.
SchemasOf(n) ==
    LET names == {RegisteredNames[i] : i \in 1..n}
        refs  == {<<>>} \cup {<<r>> : r \in names}
                        \cup {<<RegisteredNames[n], RegisteredNames[1]>>}
    IN  { [i \in 1..n |-> [Name |-> RegisteredNames[i], Type |-> ty[i],
                           References |-> rf[i]]] :
            ty \in [1..n -> TableTypes], rf \in [1..n -> refs] }

DumpInit ==
    /\ \E n \in 1..MaxDumpTables : schema \in SchemasOf(n)
    /\ dump = [done |-> FALSE, err |-> "", statements |-> <<>>]

DumpIdle ==
    /\ schema = <<>>
    /\ dump = [done |-> FALSE, err |-> "", statements |-> <<>>]

\* Schema.Tables(types...): the tables of the given types, sorted by
\* RegisteredPosition.
Tables(sch, types) == SelectSeq(sch, LAMBDA t : t.Type \in types)

\* createTableDump: the CREATE TABLE statement of a table that is not read-only.
createTableDump(t) ==
    IF IsReadOnly(t.Type) THEN <<>>
    ELSE <<[kind |-> "CREATE TABLE", table |-> t.Name, column |-> ""]>>

\* desc.BuildAlterTableForeignKeysQueries: DROP CONSTRAINT IF EXISTS and then
\* ADD CONSTRAINT for each foreign key, in column order.
RECURSIVE BuildAlterTableForeignKeysQueries(_, _)
BuildAlterTableForeignKeysQueries(name, references) ==
    IF references = <<>> THEN <<>>
    ELSE <<[kind |-> "DROP CONSTRAINT", table |-> name, column |-> Head(references)],
           [kind |-> "ADD CONSTRAINT", table |-> name, column |-> Head(references)]>>
         \o BuildAlterTableForeignKeysQueries(name, Tail(references))

createTableForeignKeysDump(t) ==
    IF IsReadOnly(t.Type) THEN <<>>
    ELSE BuildAlterTableForeignKeysQueries(t.Name, t.References)

\* The statements f writes for each table of ts, in order.
RECURSIVE ForEachTable(_, _)
ForEachTable(f(_), ts) ==
    IF ts = <<>> THEN <<>> ELSE f(Head(ts)) \o ForEachTable(f, Tail(ts))

\* A dump with one loop: each table followed by its foreign keys.
createTablesDumpOneLoop(sch) ==
    LET both(t) == createTableDump(t) \o createTableForeignKeysDump(t)
    IN  ForEachTable(both, Tables(sch, {"base"}))

\* createTablesDump: a first loop for the tables, a second for their foreign keys.
createTablesDump(sch) ==
    LET tables == Tables(sch, {"base"})
    IN  ForEachTable(createTableDump, tables)
        \o ForEachTable(createTableForeignKeysDump, tables)

DumpStatement(kind, tableName, name) == [kind |-> kind, table |-> tableName, column |-> name]

\* createDatabaseSchemaDump: CREATE SCHEMA IF NOT EXISTS <searchPath>;
createDatabaseSchemaDump == <<DumpStatement("CREATE SCHEMA", "", "")>>

\* The column types that need an extension.
ExtensionTypes == {"uuid", "citext", "hstore"}

\* createExtensionsDump, given the column types of the schema
\* (Schema.HasColumnType) and whether a column has the password feature
\* (Schema.HasPassword).
createExtensionsDump(columnTypes, hasPassword) ==
    (IF "uuid" \in columnTypes \/ hasPassword
     THEN <<DumpStatement("CREATE EXTENSION", "", "pgcrypto")>> ELSE <<>>)
    \o (IF "citext" \in columnTypes
        THEN <<DumpStatement("CREATE EXTENSION", "", "citext")>> ELSE <<>>)
    \o (IF "hstore" \in columnTypes
        THEN <<DumpStatement("CREATE EXTENSION", "", "hstore")>> ELSE <<>>)

\* Per table, for createFunctionsAndTriggersDump:
\*   "none"     no column named UpdatedAtColumnName of type timestamp
\*   "column"   such a column, and no live trigger SetTimestampTriggerName on it
\*   "trigger"  ListTriggers reports the trigger SetTimestampTriggerName on it
TimestampStates == {"none", "column", "trigger"}

\* The settings and the database as createFunctionsAndTriggersDump finds them:
\* the feature disabled (SetTimestampTriggerName or UpdatedAtColumnName empty),
\* ListTriggers failing, or the state of each registered table.
TriggerInputs(n) ==
    {[mode |-> "disabled", tables |-> <<>>], [mode |-> "list fails", tables |-> <<>>]}
    \cup {[mode |-> "listed", tables |-> f] : f \in [1..n -> TimestampStates]}

\* The tables loop of createFunctionsAndTriggersDump from table k on; created
\* is setTimestampFunctionCreated.
RECURSIVE tablesLoop(_, _, _, _)
tablesLoop(sch, states, k, created) ==
    IF k > Len(sch) THEN <<>>
    ELSE IF sch[k].Type # "base" \/ IsReadOnly(sch[k].Type) \/ states[k] # "column"
         THEN tablesLoop(sch, states, k + 1, created)
    ELSE (IF created THEN <<>> ELSE <<DumpStatement("CREATE FUNCTION", "", "")>>)
         \o <<DumpStatement("CREATE TRIGGER", sch[k].Name, "")>>
         \o tablesLoop(sch, states, k + 1, TRUE)

\* createFunctionsAndTriggersDump: its error and what it writes.
createFunctionsAndTriggersDump(sch, found) ==
    IF found.mode = "disabled" THEN [err |-> "", statements |-> <<>>]
    ELSE IF found.mode = "list fails" THEN [err |-> "list triggers", statements |-> <<>>]
    ELSE [err |-> "", statements |-> tablesLoop(sch, found.tables, 1, FALSE)]

\* The four dumpers in order on one builder; the first error returns "" with it.
CreateSchemaDumpSQL(columnTypes, hasPassword, found) ==
    /\ ~dump.done
    /\ LET last == createFunctionsAndTriggersDump(schema, found)
       IN  dump' = IF last.err # ""
                   THEN [done |-> TRUE, err |-> last.err, statements |-> <<>>]
                   ELSE [done |-> TRUE, err |-> "",
                         statements |-> createDatabaseSchemaDump
                                        \o createExtensionsDump(columnTypes, hasPassword)
                                        \o createTablesDump(schema)
                                        \o last.statements]
    /\ UNCHANGED schema
    /\ DumpFrame

NextDump ==
    \E columnTypes \in SUBSET ExtensionTypes, hasPassword \in BOOLEAN,
       found \in TriggerInputs(Len(schema)) :
        CreateSchemaDumpSQL(columnTypes, hasPassword, found)

----------------------------------------------------------------------------
(***************************************************************************)
(* Schema reconciliation: DB.CheckSchema for a schema with one registered  *)
(* table, with Table.GetColumnByName and the comparison of                 *)
(* Column.FieldTagString(false).                                           *)
(*                                                                         *)
(* A table is its Description and its Columns; a column is its Name, its   *)
(* Type (what FieldTagString prints besides the name) and its Description. *)
(* The live side writes the name of the first column in upper case.        *)
(***************************************************************************)

CheckFrame == UNCHANGED <<installVars, listenerVars, txVars, insertVars,
    updateVars, duplicateVars, tagVars, dumpVars, constraintVars, listVars,
    scanVars, handleVars, closeVars, derivedVars, registerVars, repositoryVars,
    cronVars>>

\* The tables with one or two of the columns named by names.
CheckTablesOf(names) ==
    LET cols(name) == [Name : {name}, Type : {"int", "text"}, Description : {"", "a column"}]
    IN  [Description : {"", "a table"},
         Columns : {<<c>> : c \in cols(names[1]) \cup cols(names[2])}
                   \cup {<<c1, c2>> : c1 \in cols(names[1]), c2 \in cols(names[2])}]

checkNone == [err |-> "not called", td |-> [Description |-> "", Columns |-> <<>>], tables |-> <<>>]

CheckInit ==
    /\ codeTable \in CheckTablesOf(<<<<"i", "d">>, <<"n", "a", "m", "e">>>>)
    /\ live \in {<<>>} \cup {<<t>> : t \in CheckTablesOf(<<<<"I", "D">>, <<"n", "a", "m", "e">>>>)}
    /\ checked = checkNone

CheckIdle ==
    /\ codeTable = [Description |-> "", Columns |-> <<>>]
    /\ live = <<>>
    /\ checked = checkNone

\* Table.GetColumnByName: the position of the first column whose name matches
\* case-insensitively (strings.EqualFold), 0 for nil.
GetColumnByName(t, name) ==
    LET hits == {k \in 1..Len(t.Columns) : ToLower(t.Columns[k].Name) = ToLower(name)}
    IN  IF hits = {} THEN 0 ELSE CHOOSE k \in hits : \A h \in hits : k <= h

\* strings.ToLower(col.FieldTagString(false)): the description is not printed.
LowerFieldTag(col) == <<ToLower(col.Name), col.Type>>

\* if x.Description == "" { x.Description = y.Description }
BackFill(mine, theirs) == IF mine = "" THEN theirs ELSE mine

\* The loop over the columns of the live table: the error of the first column
\* that fails, and the code-declared table as the loop leaves it.
RECURSIVE CheckColumns(_, _)
CheckColumns(t, cols) ==
    IF cols = <<>> THEN [err |-> "", td |-> t]
    ELSE LET col == Head(cols)
             k   == GetColumnByName(t, col.Name)
         IN  IF k = 0 THEN [err |-> "column not found in schema", td |-> t]
             ELSE IF LowerFieldTag(col) # LowerFieldTag(t.Columns[k])
                 THEN [err |-> "column has wrong field tag", td |-> t]
             ELSE CheckColumns(
                      [t EXCEPT !.Columns[k].Description = BackFill(@, col.Description)],
                      Tail(cols))

\* DB.CheckSchema with tableNames = <<the registered table>>.
CheckSchema(t, tables) ==
    IF Len(tables) # 1 THEN [err |-> "expected 1 tables, got 0", td |-> t, tables |-> tables]
    ELSE LET r == CheckColumns(
                      [t EXCEPT !.Description = BackFill(@, tables[1].Description)],
                      tables[1].Columns)
         IN  [err |-> r.err, td |-> r.td, tables |-> tables]

Check ==
    /\ checked = checkNone
    /\ checked' = CheckSchema(codeTable, live)
    /\ UNCHANGED <<codeTable, live>>
    /\ CheckFrame

NextCheck == Check

----------------------------------------------------------------------------
(***************************************************************************)
(* Constraint decoding and merging: Constraint.Build with                  *)
(* parseUniqueConstraint, parseCheckConstraint, parseForeignKeyConstraint  *)
(* and parseSimpleIndexConstraint, and Constraint.BuildColumn as           *)
(* DB.ListColumns calls it for the constraints of one column, followed by  *)
(* its loop over the stand-alone unique indexes DB.ListUniqueIndexes       *)
(* returns (an input of the call).                                         *)
(*                                                                         *)
(* A catalog row is what DB.ListConstraints scans: the column name, the    *)
(* constraint name, the constraint type, the index type and the text of    *)
(* the definition. A decoded Constraint carries them with Unique, Check    *)
(* and ForeignKey, each nil or the values the parser returned.             *)
(***************************************************************************)

ConstraintFrame == UNCHANGED <<installVars, listenerVars, txVars, insertVars,
    updateVars, duplicateVars, tagVars, dumpVars, checkVars, listVars, scanVars,
    handleVars, closeVars, derivedVars, registerVars, repositoryVars, cronVars>>

Row(type, definition, indexType) ==
    [ColumnName |-> <<"b", "l", "o", "g", "_", "i", "d">>, ConstraintName |-> <<"b", "l", "o", "g", "_", "p", "o", "s", "t", "s", "_", "k", "e", "y">>,
     ConstraintType |-> type, IndexType |-> indexType, definition |-> definition]

\* Rows the catalog can return for column blog_id.
CatalogRows ==
    { Row("PRIMARY KEY", <<"P", "R", "I", "M", "A", "R", "Y", " ", "K", "E", "Y", " ", "(", "b", "l", "o", "g", "_", "i", "d", ")">>, "Btree"),
      Row("UNIQUE", <<"U", "N", "I", "Q", "U", "E", " ", "(", "b", "l", "o", "g", "_", "i", "d", ")">>, "Btree"),
      Row("UNIQUE", <<"U", "N", "I", "Q", "U", "E", " ", "(", "b", "l", "o", "g", "_", "i", "d", ",", " ", "t", "i", "t", "l", "e", ")">>, "Btree"),
      Row("CHECK", <<"C", "H", "E", "C", "K", " ", "(", "(", "b", "l", "o", "g", "_", "i", "d", " ", ">", " ", "0", ")", ")">>, "InvalidIndex"),
      Row("CHECK", <<"C", "H", "E", "C", "K", " ", "(", "(", "b", "l", "o", "g", "_", "i", "d", " ", ">", " ", "0", ")", ")", " ", "N", "O", "T", " ", "V", "A", "L", "I", "D">>, "InvalidIndex"),
      Row("FOREIGN KEY", <<"F", "O", "R", "E", "I", "G", "N", " ", "K", "E", "Y", " ", "(", "b", "l", "o", "g", "_", "i", "d", ")", " ", "R", "E", "F", "E", "R", "E", "N", "C", "E", "S", " ", "b", "l", "o", "g", "s", "(", "i", "d", ")">>, "InvalidIndex"),
      Row("FOREIGN KEY", <<"F", "O", "R", "E", "I", "G", "N", " ", "K", "E", "Y", " ", "(", "b", "l", "o", "g", "_", "i", "d", ")", " ", "R", "E", "F", "E", "R", "E", "N", "C", "E", "S", " ", "b", "l", "o", "g", "s", "(", "i", "d", ")", " ", "O", "N", " ", "D", "E", "L", "E", "T", "E", " ", "C", "A", "S", "C", "A", "D", "E">>,
          "InvalidIndex"),
      Row("FOREIGN KEY",
          <<"F", "O", "R", "E", "I", "G", "N", " ", "K", "E", "Y", " ", "(", "b", "l", "o", "g", "_", "i", "d", ")", " ", "R", "E", "F", "E", "R", "E", "N", "C", "E", "S", " ", "b", "l", "o", "g", "s", "(", "i", "d", ")", " ", "O", "N", " ", "U", "P", "D", "A", "T", "E", " ", "N", "O", " ", "A", "C", "T", "I", "O", "N", " ", "O", "N", " ", "D", "E", "L", "E", "T", "E", " ", "R", "E", "S", "T", "R", "I", "C", "T">>,
          "InvalidIndex"),
      Row("FOREIGN KEY",
          <<"f", "o", "r", "e", "i", "g", "n", " ", "k", "e", "y", " ", "(", "b", "l", "o", "g", "_", "i", "d", ")", " ", "r", "e", "f", "e", "r", "e", "n", "c", "e", "s", " ", "b", "l", "o", "g", "s", " ", "(", "i", "d", ")", " ", "o", "n", " ", "d", "e", "l", "e", "t", "e", " ", "s", "e", "t", " ", "n", "u", "l", "l", " ", "d", "e", "f", "e", "r", "r", "a", "b", "l", "e">>,
          "InvalidIndex"),
      Row("FOREIGN KEY", <<"F", "O", "R", "E", "I", "G", "N", " ", "K", "E", "Y", " ", "(", "b", "l", "o", "g", "_", "i", "d", ",", " ", "t", "i", "t", "l", "e", ")", " ", "R", "E", "F", "E", "R", "E", "N", "C", "E", "S", " ", "b", "l", "o", "g", "s", "(", "i", "d", ",", " ", "t", "i", "t", "l", "e", ")">>,
          "InvalidIndex"),
      Row("INDEX", <<"C", "R", "E", "A", "T", "E", " ", "I", "N", "D", "E", "X", " ", "b", "l", "o", "g", "_", "i", "d", "_", "i", "d", "x", " ", "O", "N", " ", "p", "u", "b", "l", "i", "c", ".", "b", "l", "o", "g", "_", "p", "o", "s", "t", "s", " ", "U", "S", "I", "N", "G", " ", "h", "a", "s", "h", " ", "(", "b", "l", "o", "g", "_", "i", "d", ")">>,
          "InvalidIndex"),
      Row("INDEX", <<"C", "R", "E", "A", "T", "E", " ", "I", "N", "D", "E", "X", " ", "p", "a", "i", "r", "_", "i", "d", "x", " ", "O", "N", " ", "p", "u", "b", "l", "i", "c", ".", "b", "l", "o", "g", "_", "p", "o", "s", "t", "s", " ", "U", "S", "I", "N", "G", " ", "b", "t", "r", "e", "e", " ", "(", "b", "l", "o", "g", "_", "i", "d", ",", " ", "t", "i", "t", "l", "e", ")">>,
          "InvalidIndex") }

nil == [nil |-> TRUE]

\* parseUniqueConstraint: the columns between "UNIQUE (" and ")"; never nil.
parseUniqueConstraint(constraintDefinition) ==
    [nil |-> FALSE,
     Columns |-> Split(TrimSuffix(TrimPrefix(constraintDefinition, <<"U", "N", "I", "Q", "U", "E", " ", "(">>), <<")">>),
                       <<",", " ">>)]

\* The end of the first group of the pattern of parseCheckConstraint when it
\* starts at from: the last position e before the closing parenthesis such
\* that from..e has no line feed and ends with a character that is not white
\* space, and what follows e matches \s*\)?\s*; 0 when there is none.
checkExpressionEnd(s, from) ==
    LET rest(e) == SpaceRun(s, e + 1)
        ends == {e \in from..(Len(s) - 1) :
                    /\ ~IsSpace(s[e])
                    /\ \A i \in from..e : s[i] # "\n"
                    /\ \/ rest(e) = Len(s)
                       \/ rest(e) < Len(s) /\ s[rest(e)] = ")"
                          /\ SpaceRun(s, rest(e) + 1) = Len(s)}
    IN  IF ends = {} THEN 0 ELSE CHOOSE e \in ends : \A d \in ends : d <= e

\* parseCheckConstraint: the first group of
\*   (?i)^CHECK\s*\(\s*\(?\s*(.*\S)\s*\)?\s*\)$
\* or nil. The group is tried after the second "(" and the white space that
\* follows it, and then right after the first "(" and its white space (a
\* group that starts earlier, inside white space, matches only if this one
\* does); it takes as much as the rest of the pattern allows.
parseCheckConstraint(constraintDefinition) ==
    LET s      == constraintDefinition
        open   == SpaceRun(s, Len(<<"C", "H", "E", "C", "K">>) + 1)
        first  == SpaceRun(s, open + 1)
        second == SpaceRun(s, first + 1)
        inner  == first <= Len(s) /\ s[first] = "(" /\ checkExpressionEnd(s, second) # 0
        from   == IF inner THEN second ELSE first
    IN  IF ~AtFold(s, 1, <<"C", "H", "E", "C", "K">>) \/ open > Len(s) \/ s[open] # "("
           \/ s[Len(s)] # ")" \/ checkExpressionEnd(s, from) = 0
        THEN nil
        ELSE [nil |-> FALSE, Expression |-> SubSeq(s, from, checkExpressionEnd(s, from))]

\* The alternatives of the group of deleteRegex and updateRegex.
fkActions == <<<<"C", "A", "S", "C", "A", "D", "E">>, <<"R", "E", "S", "T", "R", "I", "C", "T">>, <<"N", "O", " ", "A", "C", "T", "I", "O", "N">>, <<"S", "E", "T", " ", "N", "U", "L", "L">>, <<"S", "E", "T", " ", "D", "E", "F", "A", "U", "L", "T">>>>

\* The group of the leftmost match of (?i)<clause>\s+(CASCADE|RESTRICT|NO
\* ACTION|SET NULL|SET DEFAULT) in rest, <<>> without a match.
fkClause(rest, clause) ==
    LET action(i) == SpaceRun(rest, i + Len(clause))
        acts(i) == {k \in 1..Len(fkActions) : AtFold(rest, action(i), fkActions[k])}
        hits == {i \in 1..Len(rest) :
                    /\ AtFold(rest, i, clause)
                    /\ action(i) > i + Len(clause)
                    /\ acts(i) # {}}
        at   == CHOOSE i \in hits : \A j \in hits : i <= j
    IN  IF hits = {} THEN <<>>
        ELSE SubSeq(rest, action(at),
                    action(at) + Len(fkActions[CHOOSE k \in acts(at) : TRUE]) - 1)

\* (?i)\bDEFERRABLE\b matches somewhere in rest.
fkDeferrable(rest) ==
    \E i \in 1..Len(rest) :
        /\ AtFold(rest, i, <<"D", "E", "F", "E", "R", "R", "A", "B", "L", "E">>)
        /\ i = 1 \/ ~IsWord(rest[i - 1])
        /\ i + Len(<<"D", "E", "F", "E", "R", "R", "A", "B", "L", "E">>) > Len(rest) \/ ~IsWord(rest[i + Len(<<"D", "E", "F", "E", "R", "R", "A", "B", "L", "E">>)])

\* parseForeignKeyConstraint: nil unless the text matches
\*   (?i)^FOREIGN KEY\s*\((\w+)\)\s*REFERENCES\s*(\w+)\s*\((\w+)\)(.*)$
\* and then the column, the referenced table and column, the actions the
\* clauses ON DELETE and ON UPDATE of the rest name, in upper case, and
\* whether the rest holds the word DEFERRABLE.
parseForeignKeyConstraint(constraintDefinition) ==
    LET s          == constraintDefinition
        open1      == SpaceRun(s, Len(<<"F", "O", "R", "E", "I", "G", "N", " ", "K", "E", "Y">>) + 1)
        close1     == WordRun(s, open1 + 1)
        references == SpaceRun(s, close1 + 1)
        refTable   == SpaceRun(s, references + Len(<<"R", "E", "F", "E", "R", "E", "N", "C", "E", "S">>))
        tableEnd   == WordRun(s, refTable)
        open2      == SpaceRun(s, tableEnd)
        close2     == WordRun(s, open2 + 1)
        rest       == From(s, close2 + 1)
    IN  IF /\ AtFold(s, 1, <<"F", "O", "R", "E", "I", "G", "N", " ", "K", "E", "Y">>)
           /\ At(s, open1, <<"(">>) /\ close1 > open1 + 1 /\ At(s, close1, <<")">>)
           /\ AtFold(s, references, <<"R", "E", "F", "E", "R", "E", "N", "C", "E", "S">>)
           /\ tableEnd > refTable
           /\ At(s, open2, <<"(">>) /\ close2 > open2 + 1 /\ At(s, close2, <<")">>)
           /\ ~Contains(rest, <<"\n">>)
        THEN [nil |-> FALSE,
              ColumnName |-> SubSeq(s, open1 + 1, close1 - 1),
              ReferenceTableName |-> SubSeq(s, refTable, tableEnd - 1),
              ReferenceColumnName |-> SubSeq(s, open2 + 1, close2 - 1),
              OnDelete |-> ToUpper(TrimSpace(fkClause(rest, <<"O", "N", " ", "D", "E", "L", "E", "T", "E">>))),
              OnUpdate |-> ToUpper(TrimSpace(fkClause(rest, <<"O", "N", " ", "U", "P", "D", "A", "T", "E">>))),
              Deferrable |-> fkDeferrable(rest)]
        ELSE nil

\* simpleIndexRegex at position i of s:
\*   CREATE INDEX (\w+) ON \w+\.(\w+) USING (\w+) \((\w+)\)
\* Each group is a run of word characters that the next literal ends.
simpleIndexAt(s, i) ==
    LET name      == i + Len(<<"C", "R", "E", "A", "T", "E", " ", "I", "N", "D", "E", "X", " ">>)
        nameEnd   == WordRun(s, name)
        schemaPos == nameEnd + Len(<<" ", "O", "N", " ">>)
        schemaEnd == WordRun(s, schemaPos)
        tablePos  == schemaEnd + 1
        tableEnd  == WordRun(s, tablePos)
        method    == tableEnd + Len(<<" ", "U", "S", "I", "N", "G", " ">>)
        methodEnd == WordRun(s, method)
        column    == methodEnd + Len(<<" ", "(">>)
        columnEnd == WordRun(s, column)
    IN  IF /\ At(s, i, <<"C", "R", "E", "A", "T", "E", " ", "I", "N", "D", "E", "X", " ">>) /\ nameEnd > name
           /\ At(s, nameEnd, <<" ", "O", "N", " ">>) /\ schemaEnd > schemaPos
           /\ At(s, schemaEnd, <<".">>) /\ tableEnd > tablePos
           /\ At(s, tableEnd, <<" ", "U", "S", "I", "N", "G", " ">>) /\ methodEnd > method
           /\ At(s, methodEnd, <<" ", "(">>) /\ columnEnd > column
           /\ At(s, columnEnd, <<")">>)
        THEN <<SubSeq(s, name, nameEnd - 1), SubSeq(s, tablePos, tableEnd - 1),
               SubSeq(s, method, methodEnd - 1), SubSeq(s, column, columnEnd - 1)>>
        ELSE noMatch

\* parseSimpleIndexConstraint: the column name and the index type of the
\* leftmost match of simpleIndexRegex, the zero values without a match.
parseSimpleIndexConstraint(constraintDefinition) ==
    LET hits    == {i \in 1..Len(constraintDefinition) :
                       simpleIndexAt(constraintDefinition, i) # noMatch}
        matches == simpleIndexAt(constraintDefinition,
                                 CHOOSE i \in hits : \A j \in hits : i <= j)
    IN  IF hits = {} THEN [columnName |-> <<>>, indexType |-> "InvalidIndex"]
        ELSE [columnName |-> matches[4], indexType |-> parseIndexType(matches[3])]

\* The Constraint DB.ListConstraints scans from a row, then Constraint.Build
\* with the text of the definition.
ConstraintBuild(row) ==
    LET index == parseSimpleIndexConstraint(row.definition)
        isIndex == row.ConstraintType = "INDEX"
    IN  [ColumnName |-> IF isIndex THEN index.columnName ELSE row.ColumnName,
         ConstraintName |-> row.ConstraintName,
         ConstraintType |-> row.ConstraintType,
         IndexType |-> IF isIndex THEN index.indexType ELSE row.IndexType,
         Unique |-> IF row.ConstraintType = "UNIQUE"
                    THEN parseUniqueConstraint(row.definition) ELSE nil,
         Check |-> IF row.ConstraintType = "CHECK"
                   THEN parseCheckConstraint(row.definition) ELSE nil,
         ForeignKey |-> IF row.ConstraintType = "FOREIGN KEY"
                        THEN parseForeignKeyConstraint(row.definition) ELSE nil]

\* The column basicInfo.BuildColumn gives, before any constraint.
BasicColumn ==
    [Name |-> <<"b", "l", "o", "g", "_", "i", "d">>, Index |-> "InvalidIndex", PrimaryKey |-> FALSE,
     Unique |-> FALSE, UniqueIndex |-> <<>>, CheckConstraint |-> <<>>,
     ReferenceTableName |-> <<>>, ReferenceColumnName |-> <<>>,
     ReferenceOnDelete |-> <<>>, DeferrableReference |-> FALSE]

\* Constraint.BuildColumn: reading a field of a nil Unique, Check or ForeignKey
\* (c.Check.Expression, c.ForeignKey.ReferenceTableName) is a nil pointer
\* dereference, which panics.
BuildColumn(c, column) ==
    LET col1 == IF column.Index = "InvalidIndex" THEN [column EXCEPT !.Index = c.IndexType]
                ELSE column
    IN  CASE c.ConstraintType = "PRIMARY KEY" ->
                [panicked |-> FALSE, column |-> [col1 EXCEPT !.PrimaryKey = TRUE]]
          [] c.ConstraintType = "UNIQUE" ->
                [panicked |-> c.Unique.nil,
                 column |-> IF c.Unique.nil THEN col1
                            ELSE IF Len(c.Unique.Columns) = 0
                                    \/ (Len(c.Unique.Columns) = 1
                                        /\ c.Unique.Columns[1] = c.ColumnName)
                            THEN [col1 EXCEPT !.Unique = TRUE]
                            ELSE [col1 EXCEPT !.UniqueIndex = c.ConstraintName]]
          [] c.ConstraintType = "CHECK" ->
                [panicked |-> c.Check.nil,
                 column |-> IF c.Check.nil THEN col1
                            ELSE [col1 EXCEPT !.CheckConstraint = c.Check.Expression]]
          [] c.ConstraintType = "FOREIGN KEY" ->
                [panicked |-> c.ForeignKey.nil,
                 column |-> IF c.ForeignKey.nil THEN col1
                            ELSE [col1 EXCEPT
                                    !.ReferenceTableName = c.ForeignKey.ReferenceTableName,
                                    !.ReferenceColumnName = c.ForeignKey.ReferenceColumnName,
                                    !.ReferenceOnDelete = c.ForeignKey.OnDelete,
                                    !.DeferrableReference = c.ForeignKey.Deferrable]]
          [] OTHER -> [panicked |-> FALSE, column |-> [col1 EXCEPT !.Index = c.IndexType]]

\* The loop of DB.ListColumns over the constraints: the ones of the column are
\* merged into it; a panic ends the loop.
RECURSIVE MergeAll(_, _)
MergeAll(cs, col) ==
    IF cs = <<>> THEN [panicked |-> FALSE, column |-> col]
    ELSE IF Head(cs).ColumnName # col.Name THEN MergeAll(Tail(cs), col)
    ELSE LET r == BuildColumn(Head(cs), col)
         IN  IF r.panicked THEN r ELSE MergeAll(Tail(cs), r.column)

\* A row of DB.ListUniqueIndexes for the table of the column.
UniqueIndex(name, columns) == [IndexName |-> name, Columns |-> columns]

\* What DB.ListUniqueIndexes can return: unique indexes not created by a
\* constraint, on blog_id, on other columns, on both.
UniqueIndexLists ==
    { <<>>,
      <<UniqueIndex(<<"u", "q", "_", "b", "l", "o", "g">>, <<<<"b", "l", "o", "g", "_", "i", "d">>>>)>>,
      <<UniqueIndex(<<"u", "q", "_", "t", "i", "t", "l", "e">>, <<<<"t", "i", "t", "l", "e">>>>)>>,
      <<UniqueIndex(<<"u", "q", "_", "t", "i", "t", "l", "e">>, <<<<"t", "i", "t", "l", "e">>>>),
        UniqueIndex(<<"u", "q", "_", "p", "a", "i", "r">>, <<<<"t", "i", "t", "l", "e">>, <<"b", "l", "o", "g", "_", "i", "d">>>>)>>,
      <<UniqueIndex(<<"u", "q", "_", "p", "a", "i", "r">>, <<<<"t", "i", "t", "l", "e">>, <<"b", "l", "o", "g", "_", "i", "d">>>>),
        UniqueIndex(<<"u", "q", "_", "b", "l", "o", "g">>, <<<<"b", "l", "o", "g", "_", "i", "d">>>>)>> }

\* uniqueIndexLoop of DB.ListColumns: the first index with the column among its
\* columns clears Unique and gives UniqueIndex its name.
RECURSIVE uniqueIndexLoop(_, _)
uniqueIndexLoop(uniqueIndexes, col) ==
    IF uniqueIndexes = <<>> THEN col
    ELSE IF \E k \in 1..Len(Head(uniqueIndexes).Columns) :
                Head(uniqueIndexes).Columns[k] = col.Name
         THEN [col EXCEPT !.Unique = FALSE, !.UniqueIndex = Head(uniqueIndexes).IndexName]
    ELSE uniqueIndexLoop(Tail(uniqueIndexes), col)

mergeNone == [done |-> FALSE, err |-> "", panicked |-> FALSE, column |-> BasicColumn]

ConstraintInit ==
    /\ catalog \in UNION {[1..n -> CatalogRows] : n \in 0..MaxConstraints}
    /\ constraints = [listed |-> FALSE, rows |-> <<>>]
    /\ merged = mergeNone

ConstraintIdle ==
    /\ catalog = <<>>
    /\ constraints = [listed |-> FALSE, rows |-> <<>>]
    /\ merged = mergeNone

\* DB.ListConstraints: each row is scanned and decoded with Constraint.Build.
ListConstraints ==
    /\ ~constraints.listed
    /\ constraints' = [listed |-> TRUE,
                       rows |-> [k \in 1..Len(catalog) |-> ConstraintBuild(catalog[k])]]
    /\ UNCHANGED <<catalog, merged>>
    /\ ConstraintFrame

\* DB.ListColumns: an error of ListUniqueIndexes returns before any column is
\* built; else the constraints of the column are merged into it, then the
\* stand-alone unique indexes, and then the index type is dropped from a
\* primary, unique or unique-index column.
ListColumns(listOk, uniqueIndexes) ==
    /\ constraints.listed
    /\ ~merged.done
    /\ LET r == MergeAll(constraints.rows, BasicColumn)
           c == uniqueIndexLoop(uniqueIndexes, r.column)
       IN  merged' = IF ~listOk
                     THEN [mergeNone EXCEPT !.done = TRUE, !.err = "list unique indexes"]
                     ELSE IF r.panicked
                     THEN [done |-> TRUE, err |-> "", panicked |-> TRUE, column |-> r.column]
                     ELSE [done |-> TRUE, err |-> "", panicked |-> FALSE,
                           column |-> IF c.PrimaryKey \/ c.Unique \/ c.UniqueIndex # <<>>
                                      THEN [c EXCEPT !.Index = "InvalidIndex"] ELSE c]
    /\ UNCHANGED <<catalog, constraints>>
    /\ ConstraintFrame

NextConstraint ==
    \/ ListConstraints
    \/ \E listOk \in BOOLEAN, uniqueIndexes \in UniqueIndexLists :
          ListColumns(listOk, uniqueIndexes)

----------------------------------------------------------------------------
(***************************************************************************)
(* DB.ListTables: the tables of the live database, in the order their      *)
(* columns come back, without the ones the filter rejects, sorted by       *)
(* sort.SliceStable with the comparator of the function. A name is the     *)
(* sequence of its characters, so that strings.Contains is computed. For   *)
(* a slice of up to 20 elements (MaxTables is far below) sort.SliceStable  *)
(* is one insertion sort.                                                  *)
(***************************************************************************)

ListFrame == UNCHANGED <<installVars, listenerVars, txVars, insertVars, updateVars,
    duplicateVars, tagVars, dumpVars, checkVars, constraintVars, scanVars,
    handleVars, closeVars, derivedVars, registerVars, repositoryVars, cronVars>>

\* Table names of the live database: blogs, blog_posts, tags, v_stats.
LiveNames == {<<"b">>, <<"b", "_", "p">>, <<"t">>, <<"v", "_", "s">>}

\* DatabaseTableTypes: the types a table of the database can have.
DatabaseTableTypes == {"base", "view", "materialized"}

\* The lists of n tables with distinct names.
LiveTablesOf(n) ==
    {ts \in [1..n -> [Name : LiveNames, Type : DatabaseTableTypes]] :
        \A i, j \in 1..n : i # j => ts[i].Name # ts[j].Name}

\* The comparator handed to sort.SliceStable while it ignores the table types.
lessByNameOnly(tb1, tb2) == ~Contains(tb1.Name, <<"_">>)

\* The comparator handed to sort.SliceStable: tb1 = tables[i], tb2 = tables[j].
less(tb1, tb2) ==
    IF IsReadOnly(tb2.Type) THEN TRUE
    ELSE IF IsReadOnly(tb1.Type) THEN FALSE
    ELSE ~Contains(tb1.Name, <<"_">>)

Swap(ts, i, j) == [ts EXCEPT ![i] = ts[j], ![j] = ts[i]]

\* The inner loop of the insertion sort: for j := i; j > a && less(j, j-1); j--.
RECURSIVE SinkFrom(_, _)
SinkFrom(ts, j) ==
    IF j > 1 /\ less(ts[j], ts[j - 1]) THEN SinkFrom(Swap(ts, j, j - 1), j - 1) ELSE ts

\* The outer loop of the insertion sort: for i := a + 1; i < b; i++.
RECURSIVE insertionSort(_, _)
insertionSort(ts, i) ==
    IF i > Len(ts) THEN ts ELSE insertionSort(SinkFrom(ts, i), i + 1)

\* sort.SliceStable on a slice of at most 20 elements.
SliceStable(ts) == insertionSort(ts, 2)

listNone == [done |-> FALSE, tables |-> <<>>]

ListInit ==
    /\ liveTables \in UNION {LiveTablesOf(n) : n \in 0..MaxTables}
    /\ filtered \in {{}} \cup {{name} : name \in LiveNames}
    /\ listed = listNone

ListIdle ==
    /\ liveTables = <<>>
    /\ filtered = {}
    /\ listed = listNone

\* DB.ListTables: the tables the filter keeps, then the sort.
ListTables ==
    /\ ~listed.done
    /\ listed' = [done |-> TRUE,
                  tables |-> SliceStable(SelectSeq(liveTables,
                                                   LAMBDA t : t.Name \notin filtered))]
    /\ UNCHANGED <<liveTables, filtered>>
    /\ ListFrame

NextList == ListTables

----------------------------------------------------------------------------
(***************************************************************************)
(* Row decoding: ConvertRowsToStruct with findScanTargets. The table has   *)
(* the columns id and name, each scannable or not; the result row has one  *)
(* field per description, named after a column or after nothing the table  *)
(* declares. A scan target is nil, or the struct field it writes to. The   *)
(* struct starts with "old" in every field and a scanned field receives    *)
(* the row's value "row".                                                  *)
(***************************************************************************)

ScanFrame == UNCHANGED <<installVars, listenerVars, txVars, insertVars, updateVars,
    duplicateVars, tagVars, dumpVars, checkVars, constraintVars, listVars,
    handleVars, closeVars, derivedVars, registerVars, repositoryVars, cronVars>>

\* Names a field description of the result row can carry.
FieldNames == {<<"I", "D">>, <<"n", "a", "m", "e">>, <<"e", "x", "t", "r", "a">>}

\* The tables scanned into: strict or not, columns id and name.
ScanTables ==
    {[Strict |-> strict,
      Columns |-> <<[Name |-> <<"i", "d">>, FieldName |-> "ID", Unscannable |-> u1],
                    [Name |-> <<"n", "a", "m", "e">>, FieldName |-> "Name",
                     Unscannable |-> u2]>>] :
        strict \in BOOLEAN, u1 \in BOOLEAN, u2 \in BOOLEAN}

nilTarget == [nil |-> TRUE, noOp |-> FALSE, field |-> ""]

noOpScanner == [nil |-> FALSE, noOp |-> TRUE, field |-> ""]

\* findScanTargets: one target per field description; it stays nil when the
\* table has no such column and when the column is unscannable.
findScanTargets(t, descs) ==
    [i \in 1..Len(descs) |->
        LET k == GetColumnByName(t, descs[i])
        IN  IF k = 0 THEN nilTarget
            ELSE IF t.Columns[k].Unscannable THEN nilTarget
            ELSE [nil |-> FALSE, noOp |-> FALSE, field |-> t.Columns[k].FieldName]]

\* The index of the first nil target, 0 when there is none.
FirstNil(targets) ==
    LET nils == {i \in 1..Len(targets) : targets[i].nil}
    IN  IF nils = {} THEN 0 ELSE CHOOSE i \in nils : \A h \in nils : i <= h

\* rows.Scan(scanTargets...): every target that is a struct field receives the
\* value of the row; a noOpScanner drops it.
RowsScan(targets, struct) ==
    [f \in DOMAIN struct |->
        IF \E i \in 1..Len(targets) : ~targets[i].noOp /\ targets[i].field = f
        THEN "row" ELSE struct[f]]

ConvertOutcome(t, descs, struct) ==
    LET scanTargets == findScanTargets(t, descs)
        missing     == FirstNil(scanTargets)
    IN  IF missing # 0 /\ t.Strict
        THEN [err |-> "struct doesn't have corresponding row field", field |-> descs[missing],
              value |-> struct]
        ELSE [err |-> "nil", field |-> <<>>,
              value |-> RowsScan([i \in 1..Len(scanTargets) |->
                                     IF scanTargets[i].nil THEN noOpScanner
                                     ELSE scanTargets[i]], struct)]

scanNone == [err |-> "not called", field |-> <<>>, value |-> [ID |-> "old", Name |-> "old"]]

ScanInit ==
    /\ scanTd \in ScanTables
    /\ fieldDescs \in UNION {[1..n -> FieldNames] : n \in 1..MaxFields}
    /\ scanned = scanNone

ScanIdle ==
    /\ scanTd = [Strict |-> FALSE, Columns |-> <<>>]
    /\ fieldDescs = <<>>
    /\ scanned = scanNone

\* ConvertRowsToStruct(td, rows, valuePtr) on the current row.
ConvertRowsToStruct ==
    /\ scanned.err = "not called"
    /\ scanned' = ConvertOutcome(scanTd, fieldDescs, scanned.value)
    /\ UNCHANGED <<scanTd, fieldDescs>>
    /\ ScanFrame

NextScan == ConvertRowsToStruct

----------------------------------------------------------------------------
(***************************************************************************)
(* A transactional DB in the caller's hands: DB.Begin on the root DB, then *)
(* DB.Query / DB.QueryRow / DB.Exec, DB.Commit / DB.Rollback and           *)
(* InTransaction (of DB, Repository or CustomerRepository) on the DB value *)
(* Begin returned, in any order the caller chooses.                        *)
(***************************************************************************)

HandleFrame == UNCHANGED <<installVars, listenerVars, txVars, insertVars,
    updateVars, duplicateVars, tagVars, dumpVars, checkVars, constraintVars,
    listVars, scanVars, closeVars, derivedVars, registerVars, repositoryVars,
    cronVars>>

StatementKinds == {"Query", "QueryRow", "Exec"}

\* The receivers InTransaction exists on; the repositories hold the DB in repo.db.
InTransactionReceivers == {"DB", "Repository", "CustomerRepository"}

\* InTransaction that always begins a transaction of its own.
RunsOnCallersTxNever(db) == FALSE

\* if db.IsTransaction() { return fn(db) }
RunsOnCallersTx(db) == IsTransaction(db)

nestedNone == [pc |-> "idle", on |-> "none", inTx |-> FALSE, own |-> FALSE, ret |-> "none",
               before |-> <<0, 0, 0, "none">>, after |-> <<0, 0, 0, "none">>]

HandleInit ==
    /\ hdb = RootDB
    /\ hpc = "none"
    /\ pgxTx = "none"
    /\ ownTx = "none"
    /\ hBegins = 0
    /\ hCommits = 0
    /\ hRollbacks = 0
    /\ stmts = <<>>
    /\ nested = nestedNone
    /\ nestedCalls = 0

\* txDB, err := db.Begin(ctx) on the root DB.
HandleBegin(ok) ==
    /\ hpc = "none"
    /\ hBegins' = hBegins + 1
    /\ IF ok THEN hdb' = clone(RootDB) /\ pgxTx' = "open" /\ hpc' = "begun"
       ELSE hpc' = "failed" /\ UNCHANGED <<hdb, pgxTx>>
    /\ UNCHANGED <<ownTx, hCommits, hRollbacks, stmts, nested, nestedCalls>>
    /\ HandleFrame

\* txDB.Query / txDB.QueryRow / txDB.Exec: where the statement runs, and
\* whether the DB value had been committed or rolled back by then.
HandleStatement(kind) ==
    /\ hpc = "begun"
    /\ nested.pc # "fn"
    /\ Len(stmts) < MaxHandleCalls
    /\ stmts' = Append(stmts, [kind |-> kind, on |-> ExecOn(hdb), finished |-> hdb.dbTxClosed])
    /\ UNCHANGED <<hdb, hpc, pgxTx, ownTx, hBegins, hCommits, hRollbacks, nested, nestedCalls>>
    /\ HandleFrame

\* txDB.Commit / txDB.Rollback by the owner; ok says whether the pgx call succeeds.
HandleFinish(how, ok) ==
    /\ hpc = "begun"
    /\ nested.pc # "fn"
    /\ hCommits + hRollbacks < MaxHandleCalls
    /\ LET f == Finish(hdb, ok)
       IN  /\ hdb' = f.db
           /\ hCommits' = IF f.called /\ how = "commit" THEN hCommits + 1 ELSE hCommits
           /\ hRollbacks' = IF f.called /\ how = "rollback" THEN hRollbacks + 1 ELSE hRollbacks
           /\ pgxTx' = IF ~f.called THEN pgxTx
                       ELSE IF f.err THEN "broken"
                       ELSE IF how = "commit" THEN "committed" ELSE "rolledback"
    /\ UNCHANGED <<hpc, ownTx, hBegins, stmts, nested, nestedCalls>>
    /\ HandleFrame

\* InTransaction(ctx, fn) on the DB value in hand (or on a repository of it),
\* up to the call of fn: fn runs on the DB itself when it is in a transaction,
\* on a transaction begun for the call otherwise (beginOk: db.Begin succeeds).
HandleInTransaction(receiver, beginOk) ==
    /\ hpc = "begun"
    /\ nested.pc # "fn"
    /\ nestedCalls < MaxHandleCalls
    /\ nestedCalls' = nestedCalls + 1
    /\ LET snap  == <<hBegins, hCommits, hRollbacks, pgxTx>>
           start == [nestedNone EXCEPT !.on = receiver, !.inTx = IsTransaction(hdb),
                                       !.before = snap]
       IN  IF RunsOnCallersTx(hdb)
           THEN /\ nested' = [start EXCEPT !.pc = "fn"]
                /\ UNCHANGED <<hBegins, ownTx>>
           ELSE /\ hBegins' = hBegins + 1
                /\ IF beginOk
                   THEN /\ ownTx' = "open"
                        /\ nested' = [start EXCEPT !.pc = "fn", !.own = TRUE]
                   ELSE /\ UNCHANGED ownTx
                        /\ nested' = [start EXCEPT !.pc = "returned", !.ret = "error",
                                          !.after = <<hBegins + 1, hCommits, hRollbacks, pgxTx>>]
    /\ UNCHANGED <<hdb, hpc, pgxTx, hCommits, hRollbacks, stmts>>
    /\ HandleFrame

\* fn ends and InTransaction returns: at once on the caller's transaction,
\* through the deferred Commit/Rollback on a transaction of its own.
HandleFnReturns(result, finishOk) ==
    /\ nested.pc = "fn"
    /\ LET how  == DeferredFinish(result)
           f    == Finish(clone(RootDB), finishOk)
           own  == nested.own
           c    == IF own /\ f.called /\ how = "commit" THEN hCommits + 1 ELSE hCommits
           r    == IF own /\ f.called /\ how = "rollback" THEN hRollbacks + 1 ELSE hRollbacks
       IN  /\ hCommits' = c
           /\ hRollbacks' = r
           /\ ownTx' = IF ~own THEN ownTx
                       ELSE IF f.err THEN "broken"
                       ELSE IF how = "commit" THEN "committed" ELSE "rolledback"
           /\ nested' = [nested EXCEPT
                            !.pc = IF result = "panic" THEN "panicked" ELSE "returned",
                            !.ret = IF result = "panic" THEN "none" ELSE ReturnValue(result),
                            !.after = <<hBegins, c, r, pgxTx>>]
    /\ UNCHANGED <<hdb, hpc, pgxTx, hBegins, stmts, nestedCalls>>
    /\ HandleFrame

NextHandle ==
    \/ \E ok \in BOOLEAN : HandleBegin(ok)
    \/ \E kind \in StatementKinds : HandleStatement(kind)
    \/ \E how \in {"commit", "rollback"}, ok \in BOOLEAN : HandleFinish(how, ok)
    \/ \E receiver \in InTransactionReceivers, beginOk \in BOOLEAN :
          HandleInTransaction(receiver, beginOk)
    \/ \E result \in FnResults, finishOk \in BOOLEAN : HandleFnReturns(result, finishOk)

----------------------------------------------------------------------------
(***************************************************************************)
(* Listener.Close under concurrency. One Listener; closer 1 is the         *)
(* goroutine of ListenTable, whose deferred conn.Close runs once when the  *)
(* loop ends, the other closers are callers holding the Closer, each       *)
(* calling Close one or more times. The compare-and-swap is one step; the  *)
(* UNLISTEN statement and the deferred Release are a later step, so that   *)
(* calls overlap.                                                          *)
(***************************************************************************)

CloseFrame == UNCHANGED <<installVars, listenerVars, txVars, insertVars,
    updateVars, duplicateVars, tagVars, dumpVars, checkVars, constraintVars,
    listVars, scanVars, handleVars, derivedVars, registerVars, repositoryVars,
    cronVars>>

Closers == 1..MaxClosers

\* The goroutine closes once; a caller may call Close again and again.
CloseCallsOf(c) == IF c = 1 THEN 1 ELSE MaxCloseCalls

CloseInit ==
    /\ lcConn \in BOOLEAN
    /\ lcClosed = 0
    /\ lcReleased = 0
    /\ closePc = [c \in Closers |-> "idle"]
    /\ closeCalls = [c \in Closers |-> 0]
    /\ closeErrs = 0

CloseIdle ==
    /\ lcConn = FALSE
    /\ lcClosed = 0
    /\ lcReleased = 0
    /\ closePc = [c \in Closers |-> "idle"]
    /\ closeCalls = [c \in Closers |-> 0]
    /\ closeErrs = 0

\* Close up to the compare-and-swap: nil without a connection; the winner of
\* the swap goes on to the statement with Release deferred, the others return.
CloseEnter(c) ==
    /\ closePc[c] \in {"idle", "done"}
    /\ closeCalls[c] < CloseCallsOf(c)
    /\ closeCalls' = [closeCalls EXCEPT ![c] = @ + 1]
    /\ IF ~lcConn THEN closePc' = [closePc EXCEPT ![c] = "done"] /\ UNCHANGED lcClosed
       ELSE IF CloseSwaps(lcClosed)
            THEN lcClosed' = 1 /\ closePc' = [closePc EXCEPT ![c] = "exec"]
            ELSE closePc' = [closePc EXCEPT ![c] = "done"] /\ UNCHANGED lcClosed
    /\ UNCHANGED <<lcConn, lcReleased, closeErrs>>
    /\ CloseFrame

\* l.conn.Exec(ctx, "SELECT UNLISTEN $1;", l.channel), its error returned, and
\* the deferred l.conn.Release() in both cases.
CloseExec(c, ok) ==
    /\ closePc[c] = "exec"
    /\ closePc' = [closePc EXCEPT ![c] = "done"]
    /\ lcReleased' = lcReleased + 1
    /\ closeErrs' = IF ok THEN closeErrs ELSE closeErrs + 1
    /\ UNCHANGED <<lcConn, lcClosed, closeCalls>>
    /\ CloseFrame

NextClose ==
    \/ \E c \in Closers : CloseEnter(c)
    \/ \E c \in Closers, ok \in BOOLEAN : CloseExec(c, ok)

----------------------------------------------------------------------------
(***************************************************************************)
(* The install-once guard seen from a derived DB: OpenPool makes the lock, *)
(* the flag and the trigger set; DB.clone (used by Begin, and so by        *)
(* InTransaction) makes the DB a caller then calls prepareListenTable on.  *)
(* The flag is a pointer and the set a map, so a field holds a reference:  *)
(* the name of the object it points to, or "nil".                          *)
(***************************************************************************)

DerivedFrame == UNCHANGED <<installVars, listenerVars, txVars, insertVars,
    updateVars, duplicateVars, tagVars, dumpVars, checkVars, constraintVars,
    listVars, scanVars, handleVars, closeVars, registerVars, repositoryVars,
    cronVars>>

\* OpenPool: new(sync.RWMutex), new(uint32), make(map[string]struct{}).
OpenPool ==
    [tx |-> FALSE,
     tableChangeNotifyOnceMutex |-> "mutex of OpenPool",
     tableChangeNotifyFunctionOnce |-> "flag of OpenPool",
     tableChangeNotifyTriggerOnce |-> "map of OpenPool"]

\* DB.clone: Pool, ConnectionOptions, tx, schema, searchPath, the flag and the
\* map are set; tableChangeNotifyOnceMutex is not, and stays nil.
cloneGuard(db) == [db EXCEPT !.tx = TRUE, !.tableChangeNotifyOnceMutex = "nil"]

\* How the caller came by the DB it calls on.
Origins == {"OpenPool", "Begin", "InTransaction"}

DerivedFrom(o) == IF o = "OpenPool" THEN OpenPool ELSE cloneGuard(OpenPool)

prepareNone == [result |-> "not called", table |-> "", functionExecs |-> 0, triggerExecs |-> 0]

DerivedInit ==
    /\ origin = "none"
    /\ ddb = OpenPool
    /\ guardFlag \in {0, 1}
    /\ guardTriggers \in SUBSET TableNames
    /\ prepared = prepareNone

DerivedIdle ==
    /\ origin = "none"
    /\ ddb = OpenPool
    /\ guardFlag = 0
    /\ guardTriggers = {}
    /\ prepared = prepareNone

\* The caller takes the root DB, or the DB of Begin, or the one InTransaction
\* hands to its function.
Obtain(o) ==
    /\ origin = "none"
    /\ origin' = o
    /\ ddb' = DerivedFrom(o)
    /\ UNCHANGED <<guardFlag, guardTriggers, prepared>>
    /\ DerivedFrame

\* db.prepareListenTable(ctx, function, channel, table, changes...) on ddb by
\* one caller: fnOk and trgOk say whether the two statements succeed. RLock on
\* a nil *sync.RWMutex is a nil pointer dereference.
DerivedPrepareListenTable(t, nchanges, fnOk, trgOk) ==
    /\ origin # "none"
    /\ prepared.result = "not called"
    /\ LET needFn  == FunctionOnceUnset(guardFlag)
           fnFail  == needFn /\ ~fnOk
           noLock  == ddb.tableChangeNotifyOnceMutex = "nil"
           needTrg == ~TriggerCreated(guardTriggers, t)
           early   == t = "" \/ nchanges = 0
           atLock  == ~early /\ ~fnFail
           pastLck == atLock /\ ~noLock
           trgDone == pastLck /\ needTrg /\ trgOk
       IN  /\ guardFlag' = IF ~early /\ needFn /\ fnOk THEN 1 ELSE guardFlag
           /\ guardTriggers' = IF trgDone THEN guardTriggers \cup {t} ELSE guardTriggers
           /\ prepared' =
                [result |-> IF t = "" THEN "error"
                            ELSE IF nchanges = 0 THEN "nil"
                            ELSE IF fnFail THEN "error"
                            ELSE IF noLock THEN "panicked"
                            ELSE IF needTrg /\ ~trgOk THEN "error"
                            ELSE "nil",
                 table |-> t,
                 functionExecs |-> IF ~early /\ needFn /\ fnOk THEN 1 ELSE 0,
                 triggerExecs |-> IF trgDone THEN 1 ELSE 0]
    /\ UNCHANGED <<origin, ddb>>
    /\ DerivedFrame

NextDerived ==
    \/ \E o \in Origins : Obtain(o)
    \/ \E t \in TableNames \cup {""}, nchanges \in 0..1, fnOk \in BOOLEAN, trgOk \in BOOLEAN :
          DerivedPrepareListenTable(t, nchanges, fnOk, trgOk)

----------------------------------------------------------------------------
(***************************************************************************)
(* Schema.Register: structCache maps a struct type to its table, and       *)
(* orderedTypes lists the types in the order of their registration.        *)
(***************************************************************************)

RegisterFrame == UNCHANGED <<installVars, listenerVars, txVars, insertVars,
    updateVars, duplicateVars, tagVars, dumpVars, checkVars, constraintVars,
    listVars, scanVars, handleVars, closeVars, derivedVars, repositoryVars, cronVars>>

\* The struct types a program registers.
StructTypes == {"Customer", "Blog", "BlogPost"}

RegisterInit ==
    /\ structCache = << >>
    /\ orderedTypes = <<>>
    /\ registers = 0
    /\ lastRegistered = [err |-> FALSE, typ |-> "", RegisteredPosition |-> 0]

\* Schema.Register(tableName, emptyStructValue, opts...): convertOk says whether
\* desc.ConvertStructToTable succeeds, vetoed whether an option returns false.
Register(typ, convertOk, vetoed) ==
    /\ registers < MaxRegisters
    /\ registers' = registers + 1
    /\ IF ~convertOk
       THEN /\ lastRegistered' = [err |-> TRUE, typ |-> typ, RegisteredPosition |-> 0]
            /\ UNCHANGED <<structCache, orderedTypes>>
       ELSE LET tbl == [StructName |-> typ,
                        RegisteredPosition |-> Cardinality(DOMAIN structCache) + 1]
            IN  /\ lastRegistered' = [err |-> FALSE, typ |-> typ,
                                      RegisteredPosition |-> tbl.RegisteredPosition]
                /\ IF vetoed THEN UNCHANGED <<structCache, orderedTypes>>
                   ELSE /\ structCache' = [t \in DOMAIN structCache \cup {typ} |->
                                              IF t = typ THEN tbl ELSE structCache[t]]
                        /\ orderedTypes' = Append(orderedTypes, typ)
    /\ RegisterFrame

NextRegister ==
    \E typ \in StructTypes, convertOk \in BOOLEAN, vetoed \in BOOLEAN :
        Register(typ, convertOk, vetoed)

----------------------------------------------------------------------------
(***************************************************************************)
(* The mutating methods of Repository: the read-only test of each, and the *)
(* DB method it hands the work to. DB.deleteByID is followed to its        *)
(* statement; the other DB methods are named, not followed.                *)
(***************************************************************************)

RepositoryFrame == UNCHANGED <<installVars, listenerVars, txVars, insertVars,
    updateVars, duplicateVars, tagVars, dumpVars, checkVars, constraintVars,
    listVars, scanVars, handleVars, closeVars, derivedVars, registerVars, cronVars>>

MutatingMethods ==
    {"Insert", "InsertSingle", "Upsert", "UpsertSingle", "Update", "UpdateExceptColumns",
     "UpdateOnlyColumns", "Delete", "DeleteByID"}

\* The tables a Repository is made for: any type, with or without a primary key.
RepositoryTables == [Type : TableTypes, hasPrimaryKey : BOOLEAN]

Outcome(err, delegate, statements) ==
    [err |-> err, delegate |-> delegate, statements |-> statements]

ErrIsReadOnly == Outcome("ErrIsReadOnly", "none", 0)

\* db.deleteByID: an error without a primary key, else one DELETE through db.Exec.
deleteByID(t, execOk) ==
    IF ~t.hasPrimaryKey THEN Outcome("error", "deleteByID", 0)
    ELSE Outcome(IF execOk THEN "nil" ELSE "error", "deleteByID", 1)

\* Repository.InsertSingle and Repository.UpsertSingle.
RepoSingle(t) ==
    IF IsReadOnly(t.Type) THEN ErrIsReadOnly ELSE Outcome("delegated", "insertTableRecord", 0)

\* Repository.Insert and Repository.Upsert with n values.
RepoBatch(t, n) ==
    IF IsReadOnly(t.Type) THEN ErrIsReadOnly
    ELSE IF n = 0 THEN Outcome("nil", "none", 0)
    ELSE IF n = 1 THEN RepoSingle(t)
    ELSE Outcome("delegated", "InTransaction", 0)

\* Repository.UpdateOnlyColumns, which Update and UpdateExceptColumns end in.
RepoUpdateOnlyColumns(t, n) ==
    IF IsReadOnly(t.Type) THEN ErrIsReadOnly
    ELSE IF n = 0 THEN Outcome("nil", "none", 0)
    ELSE Outcome("delegated", "updateTableRecords", 0)

\* Repository.Delete.
RepoDelete(t, n) ==
    IF IsReadOnly(t.Type) THEN ErrIsReadOnly
    ELSE IF n = 0 THEN Outcome("nil", "none", 0)
    ELSE Outcome("delegated", "deleteTableRecords", 0)

\* Repository.DeleteByID.
RepoDeleteByID(t, execOk) == deleteByID(t, execOk)

RepoOutcome(method, t, n, execOk) ==
    CASE method \in {"Insert", "Upsert"} -> RepoBatch(t, n)
      [] method \in {"InsertSingle", "UpsertSingle"} -> RepoSingle(t)
      [] method \in {"Update", "UpdateExceptColumns", "UpdateOnlyColumns"} ->
             RepoUpdateOnlyColumns(t, n)
      [] method = "Delete" -> RepoDelete(t, n)
      [] OTHER -> RepoDeleteByID(t, execOk)

repoNone == [method |-> "none", n |-> 0, out |-> Outcome("not called", "none", 0)]

RepositoryInit ==
    /\ repoTd \in RepositoryTables
    /\ repoCall = repoNone

RepositoryIdle ==
    /\ repoTd = [Type |-> "base", hasPrimaryKey |-> FALSE]
    /\ repoCall = repoNone

\* One call of a mutating method with n values (one value for the methods
\* that take one).
RepoCalls(method, n, execOk) ==
    /\ repoCall.method = "none"
    /\ method \in {"InsertSingle", "UpsertSingle", "DeleteByID"} => n = 1
    /\ repoCall' = [method |-> method, n |-> n, out |-> RepoOutcome(method, repoTd, n, execOk)]
    /\ UNCHANGED repoTd
    /\ RepositoryFrame

NextRepository ==
    \E method \in MutatingMethods, n \in 0..MaxValues, execOk \in BOOLEAN :
        RepoCalls(method, n, execOk)

----------------------------------------------------------------------------
(***************************************************************************)
(* The cron manager on one job name: Manager.RegisterJob, Manager.AddJob,  *)
(* Manager.LoadJobs, Manager.processJobs, Manager.executeJob (a goroutine  *)
(* per ready job: its locked part before the handler, the start of the     *)
(* handler, and its locked part after the handler), Manager.DisableJob and *)
(* Manager.EnableJob. Whether time.Now() is after NextRun is an input of   *)
(* each tick; the row of the job in the database is an input of LoadJobs.  *)
(*                                                                         *)
(* RegisterJob, AddJob and LoadJobs store a Job object under the name. An  *)
(* executeJob goroutine keeps the object it was started with. Object 0 is  *)
(* the one in m.jobs; an object that was replaced while goroutines run it  *)
(* is kept, with its Status and ErrorCount, under the number of the first  *)
(* goroutine that holds it (its Handler is set: only a job with a handler  *)
(* is collected). AddJob can be given a fresh object, the object already   *)
(* in m.jobs, or one of the replaced objects.                              *)
(***************************************************************************)

CronFrame == UNCHANGED <<installVars, listenerVars, txVars, insertVars, updateVars,
    duplicateVars, tagVars, dumpVars, checkVars, constraintVars, listVars,
    scanVars, handleVars, closeVars, derivedVars, registerVars, repositoryVars>>

Workers == 1..MaxWorkers

JobStatuses == {"pending", "running", "complete", "failed", "disabled"}

\* Job.IsReady, with due for time.Now().After(j.NextRun).
IsReady(status, due) == status # "disabled" /\ status # "running" /\ due

\* if j.ErrorCount < 5 { pending } else { disabled }
MaxRetries == 5

\* Job.MarkFailed: the error count and the status it leaves.
MarkFailed(count) ==
    [ErrorCount |-> count + 1,
     Status |-> IF count + 1 < MaxRetries THEN "pending" ELSE "disabled"]

\* Job.MarkComplete: the status it leaves.
MarkComplete == "pending"

idleWorker == [pc |-> "none", obj |-> 0]

noObject == [Status |-> "none", ErrorCount |-> 0]

\* NewManager: no job, no handler.
CronInit ==
    /\ jobStatus = "none"
    /\ errorCount = 0
    /\ handlerSet = FALSE
    /\ handlers = "none"
    /\ worker = [w \in Workers |-> idleWorker]
    /\ detached = [k \in Workers |-> noObject]
    /\ disabledByCaller = FALSE
    /\ startedDisabled = FALSE

\* The goroutines holding a replaced object.
Holds(wf, w) == wf[w].pc # "none" /\ wf[w].obj # 0

\* The number a replaced object is kept under: the first goroutine holding it.
Label(wf, w) ==
    CHOOSE v \in Workers :
        /\ Holds(wf, v) /\ wf[v].obj = wf[w].obj
        /\ \A u \in Workers : (Holds(wf, u) /\ wf[u].obj = wf[w].obj) => v <= u

Relabel(wf) ==
    [w \in Workers |-> IF Holds(wf, w) THEN [wf[w] EXCEPT !.obj = Label(wf, w)] ELSE wf[w]]

\* The replaced objects that a goroutine still holds, under their numbers.
Carried(wf, df) ==
    [k \in Workers |-> IF Holds(wf, k) /\ Label(wf, k) = k THEN df[wf[k].obj] ELSE noObject]

\* m.jobs[name] = job, for a fresh object (promoted = 0) or for the replaced
\* object promoted: the goroutines of the object that was in m.jobs keep it.
\* No DisableJob has returned for the job that is now in m.jobs.
Store(status, count, handler, promoted) ==
    LET tmp == MaxWorkers + 1
        wf  == [w \in Workers |->
                  IF worker[w].pc = "none" THEN worker[w]
                  ELSE IF worker[w].obj = 0 THEN [worker[w] EXCEPT !.obj = tmp]
                  ELSE IF worker[w].obj = promoted THEN [worker[w] EXCEPT !.obj = 0]
                  ELSE worker[w]]
        df  == [k \in 1..tmp |->
                  IF k = tmp THEN [Status |-> jobStatus, ErrorCount |-> errorCount]
                  ELSE detached[k]]
    IN  /\ jobStatus' = status
        /\ errorCount' = count
        /\ handlerSet' = handler
        /\ worker' = Relabel(wf)
        /\ detached' = Carried(wf, df)
        /\ disabledByCaller' = FALSE

\* RegisterJob(name, description, interval, handler): a new pending job with
\* the handler (which may be nil) is stored, and the handler in m.handlers.
RegisterJob(handler) ==
    /\ Store("pending", 0, handler, 0)
    /\ handlers' = IF handler THEN "set" ELSE "nil"
    /\ UNCHANGED startedDisabled
    /\ CronFrame

\* The job argument of AddJob: a fresh object, the object in m.jobs, or the
\* replaced object of that number.
FreshObject == -1
StoredObject == 0

\* AddJob(ctx, job): the caller's job is stored once it is saved. Status, count
\* and handler are the fields of a fresh object.
AddJob(job, status, count, handler, dbOk) ==
    /\ job = StoredObject => jobStatus # "none"
    /\ job \in Workers => detached[job] # noObject
    /\ IF ~dbOk \/ job = StoredObject
       THEN UNCHANGED <<jobStatus, errorCount, handlerSet, worker, detached,
                        disabledByCaller>>
       ELSE IF job = FreshObject THEN Store(status, count, handler, 0)
       ELSE Store(detached[job].Status, detached[job].ErrorCount, TRUE, job)
    /\ UNCHANGED <<handlers, startedDisabled>>
    /\ CronFrame

\* LoadJobs(ctx): the job read from the database, given the handler registered
\* for its name, is stored; found is whether the table has a row of the name.
LoadJobs(found, status, count, dbOk) ==
    /\ IF dbOk /\ found
       THEN Store(status, count, handlers = "set", 0)
       ELSE UNCHANGED <<jobStatus, errorCount, handlerSet, worker, detached,
                        disabledByCaller>>
    /\ UNCHANGED <<handlers, startedDisabled>>
    /\ CronFrame

\* processJobs at a tick: the job is collected when it is ready and has a
\* handler, and `go m.executeJob(ctx, job)` starts a goroutine for it.
ProcessJobs(w, due) ==
    /\ worker[w].pc = "none"
    /\ jobStatus # "none"
    /\ IsReady(jobStatus, due) /\ handlerSet
    /\ worker' = [worker EXCEPT ![w] = [pc |-> "spawned", obj |-> 0]]
    /\ UNCHANGED <<jobStatus, errorCount, handlerSet, handlers, detached,
                   disabledByCaller, startedDisabled>>
    /\ CronFrame

\* executeJob, its first locked part: Lock, MarkRunning, updateJobInDB, Unlock.
ExecuteJobMarkRunning(w) ==
    /\ worker[w].pc = "spawned"
    /\ IF worker[w].obj = 0
       THEN jobStatus' = "running" /\ UNCHANGED detached
       ELSE /\ detached' = [detached EXCEPT ![worker[w].obj].Status = "running"]
            /\ UNCHANGED jobStatus
    /\ worker' = [worker EXCEPT ![w].pc = "marked"]
    /\ UNCHANGED <<errorCount, handlerSet, handlers, disabledByCaller, startedDisabled>>
    /\ CronFrame

\* executeJob calls job.Handler(job): the handler starts. It is a start of the
\* disabled job when the goroutine holds the object that is in m.jobs.
ExecuteJobHandler(w) ==
    /\ worker[w].pc = "marked"
    /\ worker' = [worker EXCEPT ![w].pc = "handler"]
    /\ startedDisabled' = (startedDisabled \/ (disabledByCaller /\ worker[w].obj = 0))
    /\ UNCHANGED <<jobStatus, errorCount, handlerSet, handlers, detached,
                   disabledByCaller>>
    /\ CronFrame

\* The handler returns and executeJob ends: Lock, MarkFailed or MarkComplete,
\* updateJobInDB, Unlock.
ExecuteJobEnd(w, failed) ==
    /\ worker[w].pc = "handler"
    /\ LET o     == worker[w].obj
           count == IF o = 0 THEN errorCount ELSE detached[o].ErrorCount
           after == IF failed THEN MarkFailed(count)
                    ELSE [ErrorCount |-> count, Status |-> MarkComplete]
           wf    == [worker EXCEPT ![w] = idleWorker]
       IN  /\ failed => count < MaxErrorCount
           /\ worker' = Relabel(wf)
           /\ IF o = 0
              THEN /\ jobStatus' = after.Status
                   /\ errorCount' = after.ErrorCount
                   /\ detached' = Carried(wf, detached)
              ELSE /\ detached' = Carried(wf, [detached EXCEPT ![o] = after])
                   /\ UNCHANGED <<jobStatus, errorCount>>
    /\ UNCHANGED <<handlerSet, handlers, disabledByCaller, startedDisabled>>
    /\ CronFrame

\* DisableJob(ctx, id): an error when m.jobs has no job of that id (known is
\* whether id is the name of the job); else the status is set and the result of
\* updateJobInDB returned.
DisableJob(known, dbOk) ==
    /\ IF ~(known /\ jobStatus # "none") THEN UNCHANGED <<jobStatus, disabledByCaller>>
       ELSE /\ jobStatus' = "disabled"
            /\ disabledByCaller' = (dbOk \/ disabledByCaller)
    /\ UNCHANGED <<errorCount, handlerSet, handlers, worker, detached, startedDisabled>>
    /\ CronFrame

\* EnableJob(ctx, id): an error when m.jobs has no job of that id; else the
\* status is pending and the result of updateJobInDB returned.
EnableJob(known, dbOk) ==
    /\ IF ~(known /\ jobStatus # "none") THEN UNCHANGED <<jobStatus, disabledByCaller>>
       ELSE /\ jobStatus' = "pending"
            /\ disabledByCaller' = FALSE
    /\ UNCHANGED <<errorCount, handlerSet, handlers, worker, detached, startedDisabled>>
    /\ CronFrame

NextCron ==
    \/ \E handler \in BOOLEAN : RegisterJob(handler)
    \/ \E status \in JobStatuses, count \in {0, MaxRetries - 1}, handler \in BOOLEAN :
          AddJob(FreshObject, status, count, handler, TRUE)
    \/ \E job \in {FreshObject, StoredObject} \cup Workers :
          AddJob(job, "pending", 0, FALSE, job \in {StoredObject} \cup Workers)
    \/ \E status \in JobStatuses, count \in {0, MaxRetries - 1} :
          LoadJobs(TRUE, status, count, TRUE)
    \/ \E found \in BOOLEAN : LoadJobs(found, "pending", 0, ~found)
    \/ \E w \in Workers, due \in BOOLEAN : ProcessJobs(w, due)
    \/ \E w \in Workers : ExecuteJobMarkRunning(w)
    \/ \E w \in Workers : ExecuteJobHandler(w)
    \/ \E w \in Workers, failed \in BOOLEAN : ExecuteJobEnd(w, failed)
    \/ \E known \in BOOLEAN, dbOk \in BOOLEAN : DisableJob(known, dbOk)
    \/ \E known \in BOOLEAN, dbOk \in BOOLEAN : EnableJob(known, dbOk)

----------------------------------------------------------------------------
\* Whether the call in progress goes through InTransaction.
BatchInTransaction ==
    op.kind \in BatchKinds /\ op.n >= 2 /\ (op.kind = "Update" => op.pk)

UsesInTransaction == op.kind = "fn" \/ BatchInTransaction

\* C3: InTransaction on a DB that is not in a transaction makes one Begin; the
\* transaction it gets is not finished while fn runs and is finished by exactly
\* one call before InTransaction returns (or re-panics): Commit when fn returned
\* nil, Rollback when fn returned an error or panicked. When Begin fails there is
\* no transaction to finish and its error is returned.
C3_OneBeginOneFinish ==
    /\ (UsesInTransaction /\ itPc \in {"fn", "defer"}) =>
            (begins = 1 /\ txState = "open" /\ commits + rollbacks = 0)
    /\ (UsesInTransaction /\ itPc \in {"returned", "panicked"}) =>
            /\ begins = 1
            /\ txState = "none" => (commits + rollbacks = 0 /\ itReturn = "error")
            /\ txState # "none" =>
                /\ commits + rollbacks = 1
                /\ txState # "open"
                /\ fnResult = "nil" => (commits = 1 /\ txState # "rolledback")
                /\ fnResult \in {"error", "intentional", "panic"} =>
                        (rollbacks = 1 /\ txState # "committed")

\* C3 witness: a plain InTransaction call whose fn returned nil has returned with
\* its one transaction committed by one Commit.
C3_Witness ==
    /\ itPc = "returned" /\ op.kind = "fn" /\ fnResult = "nil"
    /\ begins = 1 /\ commits = 1 /\ rollbacks = 0 /\ txState = "committed"

\* C4: Insert, Upsert and Update with two or more values, on a DB that is not in
\* a transaction, issue every per-value statement inside the one transaction;
\* after a failed statement no later value is processed and the transaction is
\* rolled back; nothing is in effect before the end, and at the end either all
\* the values are in effect or none is.
C4_BatchAllOrNothing ==
    BatchInTransaction =>
        /\ outside = 0
        /\ itPc \in {"fn", "defer"} => store = {}
        /\ failedAt # 0 => processed = failedAt
        /\ itPc = "returned" =>
            /\ failedAt # 0 => (rollbacks = 1 /\ commits = 0 /\ store = {})
            /\ store = {} \/ store = 1..op.n
            /\ store # {} => (txState = "committed" /\ failedAt = 0)

\* C4 witness: a batch of three values whose second statement failed has
\* returned: the third value was not processed, the transaction was rolled back
\* and nothing is in effect.
C4_Witness ==
    /\ itPc = "returned" /\ op.kind \in BatchKinds /\ op.n = 3
    /\ failedAt = 2 /\ processed = 2 /\ rollbacks = 1 /\ store = {}

----------------------------------------------------------------------------
----------------------------------------------------------------------------
(***************************************************************************)
(* Properties of the INSERT/UPSERT builder.                                *)
(***************************************************************************)

\* The builder was called and returned a statement.
Built == query # queryNone /\ query.err = ""

\* The statement has an ON CONFLICT clause.
HasOnConflictClause == Len(query.conflicts) > 0

\* The names of the columns of table t in unique-index group ix, in the order
\* the table declares them.
GroupColumns(t, ix) ==
    NamesAt(t, SelectSeq([i \in 1..Len(t) |-> i], LAMBDA i : t[i].UniqueIndex = ix))

\* The names of the unique-index groups of table t.
GroupNames(t) == {t[i].UniqueIndex : i \in 1..Len(t)} \ {""}

\* The inserted columns that are unique or in a unique-index group.
InsertedUnique ==
    NamesAt(td, SelectSeq(args, LAMBDA i : td[i].Unique \/ td[i].UniqueIndex # ""))

\* C6 (as stated): a built INSERT has a RETURNING clause if and only if a
\* destination pointer was requested and either the statement has no
\* ON CONFLICT clause or its conflict action is DO UPDATE.
C6_ReturningIffPointer ==
    Built =>
        (query.returning # ""
            <=> (idPtr /\ (~HasOnConflictClause \/ ContainsDoUpdate(query.action.text))))

\* C6 (amended): a built INSERT has a RETURNING clause, and it names the primary
\* key, if and only if a destination pointer was requested, the table has a
\* primary key, and either the statement has no ON CONFLICT clause or its
\* conflict action is DO UPDATE; after an ON CONFLICT clause whose action is
\* DO NOTHING the statement end never writes RETURNING.
C6_ReturningIffPointerAndPrimaryKey ==
    /\ Built =>
         /\ query.returning # ""
               <=> /\ idPtr
                   /\ PrimaryKey(td) # 0
                   /\ ~HasOnConflictClause \/ ContainsDoUpdate(query.action.text)
         /\ query.returning # "" => query.returning = td[PrimaryKey(td)].Name
    /\ \A i \in 1..Len(td) :
          Returning(td[i].Name, <<td[i].Name>>, [text |-> "DO NOTHING", set |-> <<>>]) = ""

\* C6 witness: a statement with ON CONFLICT ... DO UPDATE SET built with a
\* destination pointer carries RETURNING for the primary key.
C6_Witness ==
    /\ Built /\ idPtr /\ HasOnConflictClause
    /\ ContainsDoUpdate(query.action.text)
    /\ query.returning = "id"

\* C7: with no forced conflict target and a conflict action declared by some
\* column, the built INSERT has an ON CONFLICT clause carrying the declared
\* action unchanged.
C7_DeclaredConflictCarried ==
    (Built /\ forceOnConflictExpr = "" /\ OnConflict(td).ok) =>
        /\ HasOnConflictClause
        /\ query.action = [text |-> OnConflict(td).expr, set |-> <<>>]

\* C8: with a forced conflict target the build fails exactly when the forced
\* name is neither a unique-index group of the table nor an inserted column that
\* is unique; otherwise the target is that group's columns or that column.
C8_ForcedTargetResolvedOrError ==
    (query # queryNone /\ forceOnConflictExpr # "") =>
        LET isGroup  == forceOnConflictExpr \in GroupNames(td)
            isColumn == Among(forceOnConflictExpr, InsertedUnique)
        IN  /\ query.err # "" <=> (~isGroup /\ ~isColumn)
            /\ (query.err = "" /\ isGroup) =>
                  query.conflicts = GroupColumns(td, forceOnConflictExpr)
            /\ (query.err = "" /\ ~isGroup /\ isColumn) =>
                  query.conflicts = <<forceOnConflictExpr>>

\* C9: a forced conflict target naming a unique-index group gives an ON CONFLICT
\* target of exactly that group's columns, in declared order.
C9_ForcedGroupTarget ==
    (query # queryNone /\ forceOnConflictExpr \in GroupNames(td)) =>
        /\ query.err = ""
        /\ query.conflicts = GroupColumns(td, forceOnConflictExpr)

\* C9 witness: a statement built with a forced group of two columns, of which
\* only one is inserted, targets both.
C9_Witness ==
    /\ Built /\ forceOnConflictExpr \in GroupNames(td)
    /\ Len(query.conflicts) = 2
    /\ Len(args) = 1

\* C10: an upsert with no forced target and no declared conflict action whose
\* inserted columns include a unique column or a unique-index member carries
\* ON CONFLICT ... DO UPDATE SET with an assignment for exactly the inserted
\* columns outside the conflict target.
C10_UpsertAutoBuildsDoUpdate ==
    (query # queryNone /\ upsert /\ forceOnConflictExpr = "" /\ ~OnConflict(td).ok
       /\ Len(InsertedUnique) > 0) =>
        /\ query.err = ""
        /\ HasOnConflictClause
        /\ query.action.text = "DO UPDATE SET "
        /\ query.action.set =
              SelectSeq(query.columns, LAMBDA c : ~Among(c, query.conflicts))

----------------------------------------------------------------------------
(***************************************************************************)
(* Properties of the UPDATE builder.                                       *)
(***************************************************************************)

\* The placeholder numbers of the statement.
UpdatePlaceholders ==
    {updateQuery.set[k].param : k \in 1..Len(updateQuery.set)} \cup {updateQuery.where}

\* C11: in a built UPDATE the primary-key value is the last returned argument
\* and the WHERE placeholder is its position; with the primary key in the
\* allow-list its SET assignment uses the WHERE placeholder; the statement has
\* as many distinct placeholders as arguments.
C11_PrimaryKeyLastAndShared ==
    updateQuery.err = "" =>
        LET n == Len(updateQuery.values)
        IN  /\ updateQuery.values[n] = <<"value of", primaryKey.Name>>
            /\ updateQuery.where = n
            /\ primaryKey.Name \in columnsToUpdate =>
                  \E k \in 1..Len(updateQuery.set) :
                      /\ updateQuery.set[k].col = primaryKey.Name
                      /\ updateQuery.set[k].param = updateQuery.where
            /\ Cardinality(UpdatePlaceholders) = n

\* C11 witness: a statement that updates the primary key and another column.
C11_Witness ==
    /\ updateQuery.err = ""
    /\ primaryKey.Name \in columnsToUpdate
    /\ Len(updateQuery.set) = 2
    /\ updateQuery.where = 2

----------------------------------------------------------------------------
(***************************************************************************)
(* Properties of the DUPLICATE builder.                                    *)
(***************************************************************************)

\* The statement has the word RETURNING after its WHERE condition.
DuplicateHasReturning ==
    \E k \in 1..Len(duplicateQuery.tail) : duplicateQuery.tail[k] = " RETURNING "

\* C12: a built duplicate statement has a RETURNING clause if and only if a
\* destination pointer is supplied, and without one it ends right after the
\* WHERE condition.
C12_DuplicateReturningIffPointer ==
    duplicateQuery.err = "" =>
        /\ DuplicateHasReturning <=> duplicateIdPtr
        /\ ~duplicateIdPtr => duplicateQuery.tail = <<";">>

----------------------------------------------------------------------------
(***************************************************************************)
(* Properties of the annotation parser and printer.                        *)
(***************************************************************************)

\* The options of fieldTag.
Options == Split(fieldTag, <<",">>)

\* The positions of the options that declare key (a flag: as true).
Declares(key) ==
    {k \in 1..Len(Options) :
        /\ Options[k] # <<>>
        /\ OptionKey(Options[k]) = key
        /\ OptionValue(Options[k]) \notin {<<>>, <<"f", "a", "l", "s", "e">>}}

\* The positions of the options with an unrecognized key.
Unrecognized ==
    {k \in 1..Len(Options) : Options[k] # <<>> /\ OptionKey(Options[k]) \notin KnownKeys}

\* C13: an annotation declaring both unique and unique_index is rejected,
\* whichever comes first.
C13_UniqueAndUniqueIndexRejected ==
    (parsed # parseNone /\ Declares(<<"u", "n", "i", "q", "u", "e">>) # {} /\ Declares(<<"u", "n", "i", "q", "u", "e", "_", "i", "n", "d", "e", "x">>) # {}) =>
        parsed.err # ""

\* C14: an unrecognized option is accepted only as a bare word, which is then
\* the column name; an unrecognized key=value option makes parsing fail.
C14_UnrecognizedOption ==
    parsed # parseNone =>
        /\ (\E k \in Unrecognized : Contains(Options[k], <<"=">>)) => parsed.err # ""
        /\ (parsed.err = "" /\ Len(Options) \in Unrecognized) =>
              parsed.c.Name = OptionKey(Options[Len(Options)])

\* C15: printing the Column of an accepted annotation and parsing the printed
\* annotation gives an equal Column.
C15_TagRoundTrip ==
    reparsed # parseNone => (reparsed.err = "" /\ reparsed.c = parsed.c)

----------------------------------------------------------------------------
(***************************************************************************)
(* Properties of the schema dump.                                          *)
(***************************************************************************)

\* C16: in the dump every foreign-key ALTER TABLE statement comes after the
\* CREATE TABLE statement of every base table, each base table has its
\* CREATE TABLE statement, and each ADD CONSTRAINT is preceded by the
\* DROP CONSTRAINT IF EXISTS of the same foreign key.
C16_ForeignKeysAfterTables ==
    (dump.done /\ dump.err = "") =>
        LET st == dump.statements
            alter(i) == st[i].kind \in {"DROP CONSTRAINT", "ADD CONSTRAINT"}
        IN  /\ \A t \in 1..Len(schema) :
                  schema[t].Type = "base" =>
                      \E j \in 1..Len(st) :
                          /\ st[j] = [kind |-> "CREATE TABLE", table |-> schema[t].Name,
                                      column |-> ""]
                          /\ \A i \in 1..Len(st) : alter(i) => j < i
            /\ \A i \in 1..Len(st) :
                  st[i].kind = "ADD CONSTRAINT" =>
                      \E j \in 1..(i - 1) :
                          st[j] = [st[i] EXCEPT !.kind = "DROP CONSTRAINT"]
            /\ \A t \in 1..Len(schema) :
                  schema[t].Type = "base" =>
                      \A k \in 1..Len(schema[t].References) :
                          \E i \in 1..Len(st) :
                              st[i] = [kind |-> "ADD CONSTRAINT", table |-> schema[t].Name,
                                       column |-> schema[t].References[k]]

\* C16 witness: the first registered table has a foreign key to a base table
\* registered after it, and the dump holds its ADD CONSTRAINT.
C16_Witness ==
    /\ dump.done /\ dump.err = ""
    /\ Len(schema) >= 2
    /\ schema[1].Type = "base" /\ schema[2].Type = "base"
    /\ schema[1].References = <<"blogs", "customers">>
    /\ \E i \in 1..Len(dump.statements) :
          dump.statements[i] = [kind |-> "ADD CONSTRAINT", table |-> "customers",
                                column |-> "blogs"]

----------------------------------------------------------------------------
(***************************************************************************)
(* Properties of CheckSchema.                                              *)
(***************************************************************************)

\* CheckSchema was called and returned nil.
CheckPassed == checked.err = ""

\* The table without its descriptions.
NoDescriptions(t) ==
    [Description |-> "",
     Columns |-> [k \in 1..Len(t.Columns) |-> [t.Columns[k] EXCEPT !.Description = ""]]]

\* C17: CheckSchema returns an error whenever a column of the registered table
\* has no column of the same name, compared case-insensitively, in the live table.
C17_MissingLiveColumnReported ==
    (checked # checkNone
       /\ \E k \in 1..Len(codeTable.Columns) :
             \A t \in 1..Len(live) : GetColumnByName(live[t], codeTable.Columns[k].Name) = 0)
    => checked.err # ""

\* Each description that one side had and the other lacked before the call is
\* on both sides after it.
DescriptionsOnBothSides ==
    LET one(a, b) == (a = "") # (b = "")
    IN  /\ one(codeTable.Description, live[1].Description) =>
              (checked.td.Description # "" /\ checked.tables[1].Description # "")
        /\ \A k \in 1..Len(live[1].Columns) :
              LET c == GetColumnByName(codeTable, live[1].Columns[k].Name)
              IN  one(codeTable.Columns[c].Description, live[1].Columns[k].Description) =>
                      /\ checked.td.Columns[c].Description # ""
                      /\ checked.tables[1].Columns[k].Description # ""

\* The outcome of CheckSchema is the one it has with all descriptions removed.
DescriptionsDoNotCount ==
    checked # checkNone =>
        checked.err = CheckSchema(NoDescriptions(codeTable),
                                  [t \in 1..Len(live) |-> NoDescriptions(live[t])]).err

\* C18: after a matching check every description present on
\* exactly one side is present on both, and descriptions never change the outcome.
C18_DescriptionsBackFilledBothWays ==
    /\ CheckPassed => DescriptionsOnBothSides
    /\ DescriptionsDoNotCount

----------------------------------------------------------------------------
(***************************************************************************)
(* Properties of constraint decoding and merging.                          *)
(***************************************************************************)

\* C19: a check or foreign-key text that does not match decodes to a nil
\* payload, and merging the constraints of the column then completes without
\* a crash, leaving the attributes of that constraint unset.
C19_NilPayloadMergesQuietly ==
    /\ constraints.listed =>
          \A k \in 1..Len(catalog) :
              /\ catalog[k].definition = <<"C", "H", "E", "C", "K", " ", "(", "(", "b", "l", "o", "g", "_", "i", "d", " ", ">", " ", "0", ")", ")", " ", "N", "O", "T", " ", "V", "A", "L", "I", "D">>
                     => constraints.rows[k].Check.nil
              /\ catalog[k].definition
                     = <<"F", "O", "R", "E", "I", "G", "N", " ", "K", "E", "Y", " ", "(", "b", "l", "o", "g", "_", "i", "d", ",", " ", "t", "i", "t", "l", "e", ")", " ", "R", "E", "F", "E", "R", "E", "N", "C", "E", "S", " ", "b", "l", "o", "g", "s", "(", "i", "d", ",", " ", "t", "i", "t", "l", "e", ")">>
                     => constraints.rows[k].ForeignKey.nil
    /\ merged.done =>
          /\ ~merged.panicked
          /\ (\A k \in 1..Len(constraints.rows) : constraints.rows[k].Check.nil)
             => merged.column.CheckConstraint = <<>>

----------------------------------------------------------------------------
(***************************************************************************)
(* Properties of DB.ListTables.                                            *)
(***************************************************************************)

\* C20: in the list ListTables returns, every base table precedes every
\* read-only table, and the list holds exactly the tables the filter kept.
C20_BaseTablesFirst ==
    listed.done =>
        /\ \A i, j \in 1..Len(listed.tables) :
               (~IsReadOnly(listed.tables[i].Type) /\ IsReadOnly(listed.tables[j].Type))
               => i < j
        /\ {listed.tables[i] : i \in 1..Len(listed.tables)}
               = {liveTables[i] : i \in {k \in 1..Len(liveTables) :
                                            liveTables[k].Name \notin filtered}}
        /\ Len(listed.tables) = Cardinality({listed.tables[i] : i \in 1..Len(listed.tables)})

\* C20 witness: the database gave a read-only table before a base table, both
\* are kept by the filter, and the list is returned.
C20_Witness ==
    /\ listed.done
    /\ \E i, j \in 1..Len(liveTables) :
           /\ i < j
           /\ IsReadOnly(liveTables[i].Type) /\ ~IsReadOnly(liveTables[j].Type)
           /\ Contains(liveTables[j].Name, <<"_">>)
           /\ liveTables[i].Name \notin filtered /\ liveTables[j].Name \notin filtered

----------------------------------------------------------------------------
(***************************************************************************)
(* Properties of row decoding.                                             *)
(***************************************************************************)

\* The result row has a field whose column the table marks unscannable, and
\* every other field of the row is a column of the table.
UnscannableFieldOnly ==
    /\ \E i \in 1..Len(fieldDescs) :
           LET k == GetColumnByName(scanTd, fieldDescs[i])
           IN  k # 0 /\ scanTd.Columns[k].Unscannable
    /\ \A i \in 1..Len(fieldDescs) : GetColumnByName(scanTd, fieldDescs[i]) # 0

\* C21: decoding a row with a field of an unscannable column succeeds and
\* leaves the struct field of that column unchanged, for a strict table and
\* for a table that is not strict.
C21_UnscannableFieldIsSkipped ==
    (scanned.err # "not called" /\ UnscannableFieldOnly) =>
        /\ scanned.err = "nil"
        /\ \A i \in 1..Len(fieldDescs) :
               LET k == GetColumnByName(scanTd, fieldDescs[i])
               IN  scanTd.Columns[k].Unscannable
                   => scanned.value[scanTd.Columns[k].FieldName] = "old"

----------------------------------------------------------------------------
(***************************************************************************)
(* Properties of InTransaction's result and of a transactional DB in the   *)
(* caller's hands.                                                         *)
(***************************************************************************)

\* C22: InTransaction returns nil only when its transaction was committed or
\* an intentional rollback succeeded; a failed commit is returned as an error.
C22_NilMeansFinished ==
    (op.kind = "fn" /\ itPc = "returned" /\ itReturn = "nil")
        => \/ txState = "committed"
           \/ (fnResult = "intentional" /\ txState = "rolledback")

\* C23: no statement issued through a DB obtained from Begin, after it was
\* committed or rolled back, runs on the connection pool.
C23_NoStatementOnPoolAfterFinish ==
    \A i \in 1..Len(stmts) : stmts[i].finished => stmts[i].on # "pool"

\* C24: InTransaction on a DB that is in a transaction runs fn on it and makes
\* no Begin, Commit or Rollback of its own, and the transaction is as open
\* after the call as before, whatever fn returns.
C24_NestedCallLeavesTransactionAlone ==
    (nested.inTx /\ nested.pc \in {"returned", "panicked"})
        => nested.after = nested.before

\* C24 witness: a call on a DB in an open transaction returned an error from fn.
C24_Witness ==
    /\ nested.inTx /\ nested.pc = "returned" /\ nested.ret = "error"
    /\ nested.before[4] = "open" /\ pgxTx = "open"
    /\ nested.on = "Repository"

----------------------------------------------------------------------------
(***************************************************************************)
(* Properties of Listener.Close under concurrency.                         *)
(***************************************************************************)

\* C25: whatever the number and the interleaving of Close calls on one
\* Listener, the goroutine's own included, the pooled connection is never
\* released twice, and it has been released once when no call is in progress
\* and one was made.
C25_ReleasedExactlyOnce ==
    /\ lcReleased <= 1
    /\ (lcConn /\ (\E c \in Closers : closeCalls[c] > 0)
          /\ (\A c \in Closers : closePc[c] # "exec"))
       => lcReleased = 1

\* C25 witness: the goroutine and a caller have closed, the caller twice, one
\* of them while the other's call was in progress (the statement failed).
C25_Witness ==
    /\ lcConn
    /\ closeCalls[1] = 1 /\ closeCalls[2] = MaxCloseCalls
    /\ \A c \in Closers : closePc[c] \in {"idle", "done"}
    /\ closePc[1] = "done" /\ closePc[2] = "done"
    /\ closeErrs = 1
    /\ lcReleased = 1

----------------------------------------------------------------------------
(***************************************************************************)
(* Properties of the install-once guard on a derived DB.                   *)
(***************************************************************************)

\* C26: a DB of Begin or of InTransaction holds the same flag, lock and
\* trigger set as the DB it was derived from, and prepareListenTable on it
\* ends without a runtime failure.
C26_DerivedSharesGuard ==
    origin \in {"Begin", "InTransaction"} =>
        /\ ddb.tableChangeNotifyFunctionOnce = OpenPool.tableChangeNotifyFunctionOnce
        /\ ddb.tableChangeNotifyTriggerOnce = OpenPool.tableChangeNotifyTriggerOnce
        /\ ddb.tableChangeNotifyOnceMutex = OpenPool.tableChangeNotifyOnceMutex
        /\ prepared.result # "panicked"

----------------------------------------------------------------------------
(***************************************************************************)
(* Properties of Schema.Register.                                          *)
(***************************************************************************)

\* C27: after any sequence of Register calls, with types registered again and
\* registrations vetoed by an option, no two tables the Schema holds have the
\* same RegisteredPosition.
C27_RegisteredPositionsDistinct ==
    \A t1, t2 \in DOMAIN structCache :
        t1 # t2 => structCache[t1].RegisteredPosition # structCache[t2].RegisteredPosition

----------------------------------------------------------------------------
(***************************************************************************)
(* Properties of the mutating methods of Repository.                       *)
(***************************************************************************)

\* C28: on a Repository whose table is read-only, every mutating method
\* returns ErrIsReadOnly, hands nothing to the DB and executes no statement.
C28_ReadOnlyRejectsMutations ==
    (repoCall.method # "none" /\ IsReadOnly(repoTd.Type))
        => repoCall.out = ErrIsReadOnly

----------------------------------------------------------------------------
(***************************************************************************)
(* Properties of the cron manager.                                         *)
(***************************************************************************)

\* C29: once DisableJob has returned nil for the job, its handler is not
\* started until EnableJob is called, whether or not an execution was in
\* progress at the time of DisableJob. A job stored anew under the name by
\* RegisterJob, AddJob or LoadJobs does not count as the disabled one.
C29_DisabledJobNotStarted ==
    ~startedDisabled

Init ==
    /\ InstallInit
    /\ ListenerInit
    /\ TxInit
    /\ InsertIdle
    /\ UpdateIdle
    /\ DuplicateIdle
    /\ TagIdle
    /\ DumpIdle
    /\ CheckIdle
    /\ ConstraintIdle
    /\ ListIdle
    /\ ScanIdle
    /\ HandleInit
    /\ CloseIdle
    /\ DerivedIdle
    /\ RegisterInit
    /\ RepositoryIdle
    /\ CronInit

Next ==
    \/ \E p \in Callers, t \in TableNames \cup {""}, nchanges \in 0..1 :
           PrepareCall(p, t, nchanges)
    \/ \E p \in Callers : LoadFunctionOnce(p)
    \/ \E p \in Callers, ok \in BOOLEAN : ExecCreateFunction(p, ok)
    \/ \E p \in Callers : StoreFunctionOnce(p)
    \/ \E p \in Callers : ReadTriggerOnce(p)
    \/ \E p \in Callers, ok \in BOOLEAN : ExecCreateTrigger(p, ok)
    \/ \E p \in Callers : StoreTriggerOnce(p)

Spec == Init /\ [][Next]_vars

SpecListener == Init /\ [][NextListener]_vars

SpecTx == Init /\ [][NextTx]_vars

InitInsert ==
    /\ InstallInit
    /\ ListenerInit
    /\ TxInit
    /\ InsertInit
    /\ UpdateIdle
    /\ DuplicateIdle
    /\ TagIdle
    /\ DumpIdle
    /\ CheckIdle
    /\ ConstraintIdle
    /\ ListIdle
    /\ ScanIdle
    /\ HandleInit
    /\ CloseIdle
    /\ DerivedIdle
    /\ RegisterInit
    /\ RepositoryIdle
    /\ CronInit

SpecInsert == InitInsert /\ [][NextInsert]_vars

InitUpdate ==
    /\ InstallInit
    /\ ListenerInit
    /\ TxInit
    /\ InsertIdle
    /\ UpdateInit
    /\ DuplicateIdle
    /\ TagIdle
    /\ DumpIdle
    /\ CheckIdle
    /\ ConstraintIdle
    /\ ListIdle
    /\ ScanIdle
    /\ HandleInit
    /\ CloseIdle
    /\ DerivedIdle
    /\ RegisterInit
    /\ RepositoryIdle
    /\ CronInit

SpecUpdate == InitUpdate /\ [][NextUpdate]_vars

InitDuplicate ==
    /\ InstallInit
    /\ ListenerInit
    /\ TxInit
    /\ InsertIdle
    /\ UpdateIdle
    /\ DuplicateInit
    /\ TagIdle
    /\ DumpIdle
    /\ CheckIdle
    /\ ConstraintIdle
    /\ ListIdle
    /\ ScanIdle
    /\ HandleInit
    /\ CloseIdle
    /\ DerivedIdle
    /\ RegisterInit
    /\ RepositoryIdle
    /\ CronInit

SpecDuplicate == InitDuplicate /\ [][NextDuplicate]_vars

InitTag ==
    /\ InstallInit
    /\ ListenerInit
    /\ TxInit
    /\ InsertIdle
    /\ UpdateIdle
    /\ DuplicateIdle
    /\ TagInit
    /\ DumpIdle
    /\ CheckIdle
    /\ ConstraintIdle
    /\ ListIdle
    /\ ScanIdle
    /\ HandleInit
    /\ CloseIdle
    /\ DerivedIdle
    /\ RegisterInit
    /\ RepositoryIdle
    /\ CronInit

SpecTag == InitTag /\ [][NextTag]_vars

InitDump ==
    /\ InstallInit
    /\ ListenerInit
    /\ TxInit
    /\ InsertIdle
    /\ UpdateIdle
    /\ DuplicateIdle
    /\ TagIdle
    /\ DumpInit
    /\ CheckIdle
    /\ ConstraintIdle
    /\ ListIdle
    /\ ScanIdle
    /\ HandleInit
    /\ CloseIdle
    /\ DerivedIdle
    /\ RegisterInit
    /\ RepositoryIdle
    /\ CronInit

SpecDump == InitDump /\ [][NextDump]_vars

InitCheck ==
    /\ InstallInit
    /\ ListenerInit
    /\ TxInit
    /\ InsertIdle
    /\ UpdateIdle
    /\ DuplicateIdle
    /\ TagIdle
    /\ DumpIdle
    /\ CheckInit
    /\ ConstraintIdle
    /\ ListIdle
    /\ ScanIdle
    /\ HandleInit
    /\ CloseIdle
    /\ DerivedIdle
    /\ RegisterInit
    /\ RepositoryIdle
    /\ CronInit

SpecCheck == InitCheck /\ [][NextCheck]_vars

InitConstraint ==
    /\ InstallInit
    /\ ListenerInit
    /\ TxInit
    /\ InsertIdle
    /\ UpdateIdle
    /\ DuplicateIdle
    /\ TagIdle
    /\ DumpIdle
    /\ CheckIdle
    /\ ConstraintInit
    /\ ListIdle
    /\ ScanIdle
    /\ HandleInit
    /\ CloseIdle
    /\ DerivedIdle
    /\ RegisterInit
    /\ RepositoryIdle
    /\ CronInit

SpecConstraint == InitConstraint /\ [][NextConstraint]_vars

InitList ==
    /\ InstallInit
    /\ ListenerInit
    /\ TxInit
    /\ InsertIdle
    /\ UpdateIdle
    /\ DuplicateIdle
    /\ TagIdle
    /\ DumpIdle
    /\ CheckIdle
    /\ ConstraintIdle
    /\ ListInit
    /\ ScanIdle
    /\ HandleInit
    /\ CloseIdle
    /\ DerivedIdle
    /\ RegisterInit
    /\ RepositoryIdle
    /\ CronInit

SpecList == InitList /\ [][NextList]_vars

InitScan ==
    /\ InstallInit
    /\ ListenerInit
    /\ TxInit
    /\ InsertIdle
    /\ UpdateIdle
    /\ DuplicateIdle
    /\ TagIdle
    /\ DumpIdle
    /\ CheckIdle
    /\ ConstraintIdle
    /\ ListIdle
    /\ ScanInit
    /\ HandleInit
    /\ CloseIdle
    /\ DerivedIdle
    /\ RegisterInit
    /\ RepositoryIdle
    /\ CronInit

SpecScan == InitScan /\ [][NextScan]_vars

InitHandle ==
    /\ InstallInit
    /\ ListenerInit
    /\ TxInit
    /\ InsertIdle
    /\ UpdateIdle
    /\ DuplicateIdle
    /\ TagIdle
    /\ DumpIdle
    /\ CheckIdle
    /\ ConstraintIdle
    /\ ListIdle
    /\ ScanIdle
    /\ HandleInit
    /\ CloseIdle
    /\ DerivedIdle
    /\ RegisterInit
    /\ RepositoryIdle
    /\ CronInit

SpecHandle == InitHandle /\ [][NextHandle]_vars

InitClose ==
    /\ InstallInit
    /\ ListenerInit
    /\ TxInit
    /\ InsertIdle
    /\ UpdateIdle
    /\ DuplicateIdle
    /\ TagIdle
    /\ DumpIdle
    /\ CheckIdle
    /\ ConstraintIdle
    /\ ListIdle
    /\ ScanIdle
    /\ HandleInit
    /\ CloseInit
    /\ DerivedIdle
    /\ RegisterInit
    /\ RepositoryIdle
    /\ CronInit

SpecClose == InitClose /\ [][NextClose]_vars

InitDerived ==
    /\ InstallInit
    /\ ListenerInit
    /\ TxInit
    /\ InsertIdle
    /\ UpdateIdle
    /\ DuplicateIdle
    /\ TagIdle
    /\ DumpIdle
    /\ CheckIdle
    /\ ConstraintIdle
    /\ ListIdle
    /\ ScanIdle
    /\ HandleInit
    /\ CloseIdle
    /\ DerivedInit
    /\ RegisterInit
    /\ RepositoryIdle
    /\ CronInit

SpecDerived == InitDerived /\ [][NextDerived]_vars

InitRegister ==
    /\ InstallInit
    /\ ListenerInit
    /\ TxInit
    /\ InsertIdle
    /\ UpdateIdle
    /\ DuplicateIdle
    /\ TagIdle
    /\ DumpIdle
    /\ CheckIdle
    /\ ConstraintIdle
    /\ ListIdle
    /\ ScanIdle
    /\ HandleInit
    /\ CloseIdle
    /\ DerivedIdle
    /\ RegisterInit
    /\ RepositoryIdle
    /\ CronInit

SpecRegister == InitRegister /\ [][NextRegister]_vars

InitRepository ==
    /\ InstallInit
    /\ ListenerInit
    /\ TxInit
    /\ InsertIdle
    /\ UpdateIdle
    /\ DuplicateIdle
    /\ TagIdle
    /\ DumpIdle
    /\ CheckIdle
    /\ ConstraintIdle
    /\ ListIdle
    /\ ScanIdle
    /\ HandleInit
    /\ CloseIdle
    /\ DerivedIdle
    /\ RegisterInit
    /\ RepositoryInit
    /\ CronInit

SpecRepository == InitRepository /\ [][NextRepository]_vars

InitCron ==
    /\ InstallInit
    /\ ListenerInit
    /\ TxInit
    /\ InsertIdle
    /\ UpdateIdle
    /\ DuplicateIdle
    /\ TagIdle
    /\ DumpIdle
    /\ CheckIdle
    /\ ConstraintIdle
    /\ ListIdle
    /\ ScanIdle
    /\ HandleInit
    /\ CloseIdle
    /\ DerivedIdle
    /\ RegisterInit
    /\ RepositoryIdle
    /\ CronInit

SpecCron == InitCron /\ [][NextCron]_vars

====
